---- MODULE Spec2Model ----
(***************************************************************************)
(* Model of auto-appscreenshots: the style cascade (StyleMerger,           *)
(* ConfigManager, PresetThemes) and the ImageStyle shorthand expansion.    *)
(*                                                                         *)
(* Every operation of the program that is modelled is a call: Init draws   *)
(* the operation and its arguments, the operation's action runs the whole  *)
(* call and stores what it returned or raised.  The operations that keep   *)
(* state between their steps or between calls also have heap (the objects  *)
(* that outlive a call), frame (the local variables of the calls that are  *)
(* running) and log (what the reporter and the disk have seen, in order).  *)
(***************************************************************************)
EXTENDS Integers, Sequences, FiniteSets, TLC

VARIABLES op, args, pc, result, heap, frame, log

vars == <<op, args, pc, result, heap, frame, log>>

----------------------------------------------------------------------------
(* Bounds of the model *)

\* largest number of distinct fields that the localized fragments of one call set
MaxSetFields == 1

\* largest number of fields explicitly set in one TextStyle argument
MaxStyleFields == 1

\* longest padding / corner_radius list
MaxListLen == 5

\* largest canvas width and height, in pixels
MaxCanvas == 16

\* largest width and height of a source image, in pixels
MaxSource == 11

\* largest width and height of an image given rounded corners, in pixels
MaxSide == 4

\* largest corner radius, in pixels
MaxRadius == 4

\* largest number of two-character groups in a colour string
MaxColorPairs == 4

\* largest height of the text area, in pixels
MaxTextArea == 12

\* largest number of screenshots in a configuration
MaxScreenshots == 2

\* the most style-resolution calls in a row
MaxCalls == 2

\* the most faces of a TTC file
MaxFaces == 2

----------------------------------------------------------------------------
(* Python values *)

\* Python None, for optional objects and optional integers
None == [kind |-> "None"]

\* Python None, for optional strings (language codes, theme names, colours)
NoneStr == "<None>"

\* truthiness of an optional string: None and "" are falsy
TruthyStr(s) == s # NoneStr /\ s # ""

\* an integer held by an optional field
IntVal(n) == [kind |-> "int", val |-> n]

\* truthiness of an optional integer: None and 0 are falsy
TruthyInt(x) == x.kind # "None" /\ x.val # 0

\* what a call produced
Return(v) == [kind |-> "return", val |-> v]

Raise(e) == [kind |-> "raise", exc |-> e]

NotReturned == [kind |-> "pending"]

----------------------------------------------------------------------------
(* models.py: TextStyle and LocalizedTextStyle *)

\* the ten text-style fields, in the order get_style_for_language walks them
FieldNames ==
    << "font_family", "font_style", "font_weight", "font_size", "color",
       "offset", "shadow", "shadow_color", "shadow_offset", "shadow_blur" >>

Fields == { FieldNames[i] : i \in 1..Len(FieldNames) }

\* the built-in default of each TextStyle field
TextStyleDefault(f) ==
    CASE f = "font_family"   -> "Arial"
      [] f = "font_style"    -> "normal"
      [] f = "font_weight"   -> "normal"
      [] f = "font_size"     -> 96
      [] f = "color"         -> "#FFFFFF"
      [] f = "offset"        -> <<0, 0>>
      [] f = "shadow"        -> FALSE
      [] f = "shadow_color"  -> "#000000"
      [] f = "shadow_offset" -> <<2, 2>>
      [] f = "shadow_blur"   -> 4

\* a configured value that differs from the default
Val1(f) ==
    CASE f = "font_family"   -> "Helvetica"
      [] f = "font_style"    -> "italic"
      [] f = "font_weight"   -> "bold"
      [] f = "font_size"     -> 120
      [] f = "color"         -> "#1A1A1A"
      [] f = "offset"        -> <<0, 50>>
      [] f = "shadow"        -> TRUE
      [] f = "shadow_color"  -> "#333333"
      [] f = "shadow_offset" -> <<4, 4>>
      [] f = "shadow_blur"   -> 8

\* a second configured value: the falsy value of the field's type
Val2(f) ==
    CASE f = "font_family"   -> ""
      [] f = "font_style"    -> ""
      [] f = "font_weight"   -> ""
      [] f = "font_size"     -> 0
      [] f = "color"         -> ""
      [] f = "offset"        -> <<0, 0>>
      [] f = "shadow"        -> FALSE
      [] f = "shadow_color"  -> ""
      [] f = "shadow_offset" -> <<0, 0>>
      [] f = "shadow_blur"   -> 0

\* TextStyle(**kwargs): every field holds a value, fields_set records which
\* ones the caller passed (pydantic's model_fields_set)
TextStyle(kwargs) ==
    [ kind       |-> "TextStyle",
      v          |-> [f \in Fields |->
                        IF f \in DOMAIN kwargs THEN kwargs[f] ELSE TextStyleDefault(f)],
      fields_set |-> DOMAIN kwargs ]

\* a field of a LocalizedTextStyle: None, a direct value, or a dict by language
Direct(x) == [kind |-> "direct", val |-> x]

Dict(m) == [kind |-> "dict", map |-> m]

\* LocalizedTextStyle(**kwargs): fields not passed are None
LocalizedTextStyle(kwargs) ==
    [ kind |-> "LocalizedTextStyle",
      f    |-> [g \in Fields |-> IF g \in DOMAIN kwargs THEN kwargs[g] ELSE None] ]

----------------------------------------------------------------------------
(* models.py: ImageStyle, Theme, Screenshot, ScreenshotConfig *)

\* a corner_radius / padding value: one integer or a list of integers
IntList(xs) == [kind |-> "list", val |-> xs]

\* ImageStyle(corner_radius=..., padding=...)
ImageStyle(corner_radius, padding) ==
    [kind |-> "ImageStyle", corner_radius |-> corner_radius, padding |-> padding]

\* the expansion giving zeros for every list of invalid length
ExpandShorthand_zero_fallback(x) ==
    IF x.kind = "int"
    THEN <<x.val, x.val, x.val, x.val>>
    ELSE IF Len(x.val) = 2 THEN <<x.val[1], x.val[2], x.val[1], x.val[2]>>
    ELSE IF Len(x.val) = 3 THEN <<x.val[1], x.val[2], x.val[3], x.val[2]>>
    ELSE IF Len(x.val) = 4 THEN <<x.val[1], x.val[2], x.val[3], x.val[4]>>
    ELSE <<0, 0, 0, 0>>

\* the four values of a padding / corner_radius shorthand
ExpandShorthand(x) ==
    IF x.kind = "int"
    THEN <<x.val, x.val, x.val, x.val>>
    ELSE IF Len(x.val) = 2 THEN <<x.val[1], x.val[2], x.val[1], x.val[2]>>
    ELSE IF Len(x.val) = 3 THEN <<x.val[1], x.val[2], x.val[3], x.val[2]>>
    ELSE IF Len(x.val) = 4 THEN <<x.val[1], x.val[2], x.val[3], x.val[4]>>
    ELSE LET value == IF Len(x.val) # 0 THEN x.val[1] ELSE 0
         IN  <<value, value, value, value>>

\* ImageStyle.get_padding_values: (top, right, bottom, left)
get_padding_values(self) == ExpandShorthand(self.padding)

\* ImageStyle.get_corner_radius_values: (top-left, top-right, bottom-right, bottom-left)
get_corner_radius_values(self) == ExpandShorthand(self.corner_radius)

\* Theme(...): every field is optional
Theme(text_area_height, background_color, image_style, main_text_style, sub_text_style) ==
    [ kind             |-> "Theme",
      text_area_height |-> text_area_height,
      background_color |-> background_color,
      image_style      |-> image_style,
      main_text_style  |-> main_text_style,
      sub_text_style   |-> sub_text_style ]

\* Screenshot(...): the fields style resolution reads
Screenshot(theme, main_text_style, sub_text_style) ==
    [ kind            |-> "Screenshot",
      theme           |-> theme,
      main_text_style |-> main_text_style,
      sub_text_style  |-> sub_text_style ]

\* ScreenshotConfig whose default_language field defaults to None
ScreenshotConfig_no_default_language(data) ==
    [ kind             |-> "ScreenshotConfig",
      default_language |-> IF "default_language" \in DOMAIN data
                           THEN data["default_language"] ELSE NoneStr,
      default_theme    |-> IF "default_theme" \in DOMAIN data
                           THEN data["default_theme"] ELSE "standard",
      theme_styles     |-> IF "theme_styles" \in DOMAIN data
                           THEN data["theme_styles"] ELSE <<>>,
      fields_set       |-> DOMAIN data ]

\* ScreenshotConfig(**data): keys missing from data take the field defaults
ScreenshotConfig(data) ==
    [ kind             |-> "ScreenshotConfig",
      default_language |-> IF "default_language" \in DOMAIN data
                           THEN data["default_language"] ELSE "en",
      default_theme    |-> IF "default_theme" \in DOMAIN data
                           THEN data["default_theme"] ELSE "standard",
      theme_styles     |-> IF "theme_styles" \in DOMAIN data
                           THEN data["theme_styles"] ELSE <<>>,
      fields_set       |-> DOMAIN data ]

----------------------------------------------------------------------------
(* preset_themes.py: PresetThemes *)

THEMES ==
    ("standard" :> [text_layout |-> "standard"])
    @@ ("standard_inverted" :> [text_layout |-> "inverted"])

is_valid_theme(theme_name) == theme_name \in DOMAIN THEMES

get_theme_config(theme_name) ==
    IF theme_name \notin DOMAIN THEMES
    THEN Raise("ValueError")
    ELSE Return(THEMES[theme_name])

PresetThemes_get_text_layout(theme_name) ==
    LET config == get_theme_config(theme_name)
    IN  IF config.kind = "raise" THEN config ELSE Return(config.val.text_layout)

----------------------------------------------------------------------------
(* style_merger.py: StyleMerger *)

\* merge_text_styles dumping override without exclude_unset: every field of
\* override, set or not, is assigned
merge_text_styles_dump_all(defaults, override) ==
    [ kind       |-> "TextStyle",
      v          |-> [f \in Fields |-> override.v[f]],
      fields_set |-> Fields ]

\* merge_text_styles: a copy of defaults in which every field that override
\* explicitly set (model_dump(exclude_unset=True)) is assigned override's value
merge_text_styles(defaults, override) ==
    [ kind       |-> "TextStyle",
      v          |-> [f \in Fields |->
                        IF f \in override.fields_set THEN override.v[f] ELSE defaults.v[f]],
      fields_set |-> defaults.fields_set \cup override.fields_set ]

\* dict.update twice: the keys of both dicts, override's entry on shared keys
DictUpdate(defaults_value, override_value) ==
    [k \in DOMAIN defaults_value \cup DOMAIN override_value |->
        IF k \in DOMAIN override_value THEN override_value[k] ELSE defaults_value[k]]

\* the loop body without the dict branch: override's value replaces the field
MergeLocalizedField_replace(defaults_value, override_value) ==
    IF override_value.kind # "None" THEN override_value ELSE defaults_value

\* the body of merge_localized_text_styles' loop for one field
MergeLocalizedField(defaults_value, override_value) ==
    IF override_value.kind # "None"
    THEN IF defaults_value.kind = "dict" /\ override_value.kind = "dict"
         THEN Dict(DictUpdate(defaults_value.map, override_value.map))
         ELSE override_value
    ELSE defaults_value

\* merge_localized_text_styles: either argument may be None
merge_localized_text_styles(defaults_style, override_style) ==
    IF override_style.kind = "None" THEN defaults_style
    ELSE IF defaults_style.kind = "None" THEN override_style
    ELSE [ kind |-> "LocalizedTextStyle",
           f    |-> [g \in Fields |->
                        MergeLocalizedField(defaults_style.f[g], override_style.f[g])] ]

\* value[key] of a Python dict: a KeyError when the key is missing
GetItem(m, k) ==
    IF k \in DOMAIN m THEN [kind |-> "value", val |-> m[k]] ELSE [kind |-> "KeyError"]

\* the loop body trying default_language before the target language
StyleDictEntry_default_first(value, language, default_language) ==
    IF value.kind # "None"
    THEN IF value.kind = "dict"
         THEN IF TruthyStr(default_language) /\ default_language \in DOMAIN value.map
              THEN GetItem(value.map, default_language)
              ELSE IF TruthyStr(language) /\ language \in DOMAIN value.map
                   THEN GetItem(value.map, language)
                   ELSE [kind |-> "skip"]
         ELSE [kind |-> "value", val |-> value.val]
    ELSE [kind |-> "skip"]

\* the loop body indexing the dict without the "in" tests
StyleDictEntry_unguarded(value, language, default_language) ==
    IF value.kind # "None"
    THEN IF value.kind = "dict"
         THEN IF TruthyStr(language)
              THEN GetItem(value.map, language)
              ELSE IF TruthyStr(default_language)
                   THEN GetItem(value.map, default_language)
                   ELSE [kind |-> "skip"]
         ELSE [kind |-> "value", val |-> value.val]
    ELSE [kind |-> "skip"]

\* the body of get_style_for_language's loop for one field: the value put
\* into style_dict, or "skip" when nothing is put
StyleDictEntry(value, language, default_language) ==
    IF value.kind # "None"
    THEN IF value.kind = "dict"
         THEN IF TruthyStr(language) /\ language \in DOMAIN value.map
              THEN GetItem(value.map, language)
              ELSE IF TruthyStr(default_language) /\ default_language \in DOMAIN value.map
                   THEN GetItem(value.map, default_language)
                   ELSE [kind |-> "skip"]
         ELSE [kind |-> "value", val |-> value.val]
    ELSE [kind |-> "skip"]

\* get_style_for_language: TextStyle(**style_dict)
get_style_for_language(localized_style, language, default_language) ==
    LET entry(f) == StyleDictEntry(localized_style.f[f], language, default_language)
        keys == { f \in Fields : entry(f).kind = "value" }
    IN  IF \E i \in 1..Len(FieldNames) : entry(FieldNames[i]).kind = "KeyError"
        THEN Raise("KeyError")
        ELSE Return(TextStyle([f \in keys |-> entry(f).val]))

----------------------------------------------------------------------------
(* config_manager.py: ConfigManager *)

\* screenshot.theme or self.config.default_theme
ThemeName(config, screenshot) ==
    IF TruthyStr(screenshot.theme) THEN screenshot.theme ELSE config.default_theme

get_theme_style(config, screenshot) ==
    LET theme_name == ThemeName(config, screenshot)
    IN  IF ~is_valid_theme(theme_name)
        THEN Raise("ValueError")
        ELSE IF theme_name \in DOMAIN config.theme_styles
             THEN Return(config.theme_styles[theme_name])
             ELSE Return(Theme(None, NoneStr, None, None, None))

\* f"{style_type}_text_style"
TextStyleAttr(style_type) ==
    IF style_type = "main" THEN "main_text_style" ELSE "sub_text_style"

\* _get_text_style merging in the wrong order: the theme's style over the
\* screenshot's
_get_text_style_swapped(config, screenshot, language, style_type) ==
    LET theme_style == get_theme_style(config, screenshot)
    IN  IF theme_style.kind = "raise" THEN theme_style
        ELSE
        LET theme_localized_style == theme_style.val[TextStyleAttr(style_type)]
            screenshot_localized_style == screenshot[TextStyleAttr(style_type)]
            default_language == config.default_language
            theme_text_style ==
                IF theme_localized_style.kind # "None"
                THEN get_style_for_language(theme_localized_style, language, default_language)
                ELSE Return(TextStyle(<<>>))
        IN  IF theme_text_style.kind = "raise" THEN theme_text_style
            ELSE IF screenshot_localized_style.kind # "None"
            THEN LET screenshot_style ==
                        get_style_for_language(screenshot_localized_style, language,
                                               default_language)
                 IN  IF screenshot_style.kind = "raise" THEN screenshot_style
                     ELSE Return(merge_text_styles(screenshot_style.val,
                                                   theme_text_style.val))
            ELSE theme_text_style

_get_text_style(config, screenshot, language, style_type) ==
    LET theme_style == get_theme_style(config, screenshot)
    IN  IF theme_style.kind = "raise" THEN theme_style
        ELSE
        LET theme_localized_style == theme_style.val[TextStyleAttr(style_type)]
            screenshot_localized_style == screenshot[TextStyleAttr(style_type)]
            default_language == config.default_language
            theme_text_style ==
                IF theme_localized_style.kind # "None"
                THEN get_style_for_language(theme_localized_style, language, default_language)
                ELSE Return(TextStyle(<<>>))
        IN  IF theme_text_style.kind = "raise" THEN theme_text_style
            ELSE IF screenshot_localized_style.kind # "None"
            THEN LET screenshot_style ==
                        get_style_for_language(screenshot_localized_style, language,
                                               default_language)
                 IN  IF screenshot_style.kind = "raise" THEN screenshot_style
                     ELSE Return(merge_text_styles(theme_text_style.val,
                                                   screenshot_style.val))
            ELSE theme_text_style

get_main_text_style(config, screenshot, language) ==
    _get_text_style(config, screenshot, language, "main")

get_sub_text_style(config, screenshot, language) ==
    _get_text_style(config, screenshot, language, "sub")

get_text_area_height(config, screenshot) ==
    LET theme_style == get_theme_style(config, screenshot)
    IN  IF theme_style.kind = "raise" THEN theme_style
        ELSE IF TruthyInt(theme_style.val.text_area_height)
             THEN Return(theme_style.val.text_area_height.val)
             ELSE Return(400)

get_background_color(config, screenshot) ==
    LET theme_style == get_theme_style(config, screenshot)
    IN  IF theme_style.kind = "raise" THEN theme_style
        ELSE IF TruthyStr(theme_style.val.background_color)
             THEN Return(theme_style.val.background_color)
             ELSE Return("#F5F5F5")

get_image_style(config, screenshot) ==
    LET theme_style == get_theme_style(config, screenshot)
    IN  IF theme_style.kind = "raise" THEN theme_style
        ELSE IF theme_style.val.image_style.kind # "None"
             THEN Return(theme_style.val.image_style)
             ELSE Return(ImageStyle(IntVal(0), IntVal(0)))

\* get_text_layout looking only at the configuration's default theme
get_text_layout_default_only(config, screenshot) ==
    PresetThemes_get_text_layout(config.default_theme)

get_text_layout(config, screenshot) ==
    PresetThemes_get_text_layout(ThemeName(config, screenshot))

----------------------------------------------------------------------------
(* The calls the model draws *)

Languages == {"en", "ja"}

\* the sets of at most k field names among F
FieldSetsOf(F, k) == { S \in SUBSET F : Cardinality(S) <= k }

\* the sets of at most k field names
FieldSets(k) == FieldSetsOf(Fields, k)

\* one field of each value type (str, int, tuple, bool): the fields the
\* ConfigManager calls configure; _get_text_style treats every field alike
CascadeFields == {"font_family", "font_size", "offset", "shadow"}

\* the i-th value a TextStyle field is given explicitly
StyleChoice(f, i) ==
    CASE i = 0 -> TextStyleDefault(f)
      [] i = 1 -> Val1(f)
      [] i = 2 -> Val2(f)

\* the TextStyle with the fields S set, each to the value c picks
TextStyleInput(S, c) == TextStyle([f \in S |-> StyleChoice(f, c[f])])

StyleChoices == 0..2

\* the i-th way a LocalizedTextStyle field is configured
FieldChoice(f, i) ==
    CASE i = 0 -> None
      [] i = 1 -> Direct(Val1(f))
      [] i = 2 -> Direct(Val2(f))
      [] i = 3 -> Dict("en" :> Val1(f))
      [] i = 4 -> Dict("ja" :> Val2(f))
      [] i = 5 -> Dict(("en" :> Val2(f)) @@ ("ja" :> Val1(f)))

FieldChoices == 0..5

\* the LocalizedTextStyle that configures the fields S as c picks
LocalizedInput(S, c) == LocalizedTextStyle([f \in S |-> FieldChoice(f, c[f])])

\* the values a configuration file gives default_language; "<unset>" is a
\* file without the key
DefaultLanguageData == {"<unset>", NoneStr} \cup Languages

ConfigData(default_language, default_theme, theme_styles) ==
    (IF default_language = "<unset>" THEN <<>> ELSE "default_language" :> default_language)
    @@ (IF default_theme = "<unset>" THEN <<>> ELSE "default_theme" :> default_theme)
    @@ ("theme_styles" :> theme_styles)

ThemeInputs ==
    { Theme(h, b, i, None, None)
        : h \in {None, IntVal(0), IntVal(500)},
          b \in {NoneStr, "", "#FFFFFF"},
          i \in {None, ImageStyle(IntVal(10), IntVal(100))} }

\* theme_styles dicts: empty, one preset customised, or both
ThemeStylesInputs ==
    { <<>> }
    \cup { k :> t : k \in DOMAIN THEMES, t \in ThemeInputs }
    \cup { ("standard" :> t) @@ ("standard_inverted" :> Theme(IntVal(300), "#000000", None, None, None))
            : t \in ThemeInputs }

ThemeNameInputs == {"standard", "standard_inverted", "custom"}

ConfigManagerOps ==
    { "get_theme_style", "get_main_text_style", "get_sub_text_style",
      "get_text_area_height", "get_background_color", "get_image_style",
      "get_text_layout" }

\* padding / corner_radius shorthands: an integer or a list of at most
\* MaxListLen integers
ShorthandValues == 0..2

ShorthandInputs ==
    { IntVal(n) : n \in ShorthandValues }
    \cup UNION { { IntList(xs) : xs \in [1..n -> ShorthandValues] } : n \in 0..MaxListLen }

----------------------------------------------------------------------------
(* The state machine *)

Call(o, a) ==
    /\ op = o
    /\ args = a
    /\ pc = "call"
    /\ result = NotReturned
    /\ heap = <<>>
    /\ frame = <<>>
    /\ log = <<>>

\* the pairs of LocalizedTextStyle arguments (each may be None) that configure
\* at most MaxSetFields distinct fields of F between them
LocalizedPair(F, P(_, _)) ==
    \/ \E S \in FieldSetsOf(F, MaxSetFields) :
       \E cd \in [S -> FieldChoices \X FieldChoices] :
          /\ \A f \in S : cd[f] # <<0, 0>>
          /\ P(LocalizedInput(S, [f \in S |-> cd[f][1]]),
               LocalizedInput(S, [f \in S |-> cd[f][2]]))
    \/ \E S \in FieldSetsOf(F, MaxSetFields) :
       \E c \in [S -> FieldChoices \ {0}] :
          \/ P(None, LocalizedInput(S, c))
          \/ P(LocalizedInput(S, c), None)
    \/ P(None, None)

\* StyleMerger calls
InitStyleMerger ==
    \/ \E S \in FieldSets(MaxStyleFields), T \in FieldSets(MaxStyleFields) :
       \E c \in [S -> StyleChoices], d \in [T -> StyleChoices] :
          Call("merge_text_styles",
               [defaults |-> TextStyleInput(S, c), override |-> TextStyleInput(T, d)])
    \/ LET P(x, y) == Call("merge_localized_text_styles",
                           [defaults_style |-> x, override_style |-> y])
       IN  LocalizedPair(Fields, P)
    \/ \E S \in FieldSets(MaxSetFields) :
       \E c \in [S -> FieldChoices \ {0}] :
       \E l \in Languages \cup {NoneStr}, d \in Languages \cup {NoneStr} :
          Call("get_style_for_language",
               [localized_style |-> LocalizedInput(S, c), language |-> l,
                default_language |-> d])

\* a text-style getter call: t is the theme's fragment and x the screenshot's
\* fragment for the asked role; the other role has no fragment
TextStyleCall(role, t, x, l, dl) ==
    Call(IF role = "main" THEN "get_main_text_style" ELSE "get_sub_text_style",
         [config |-> ScreenshotConfig(ConfigData(dl, "<unset>",
              "standard" :>
                 IF role = "main"
                 THEN Theme(None, NoneStr, None, t, None)
                 ELSE Theme(None, NoneStr, None, None, t))),
          screenshot |->
                 IF role = "main"
                 THEN Screenshot(NoneStr, x, None)
                 ELSE Screenshot(NoneStr, None, x),
          language |-> l])

\* ConfigManager calls
InitConfigManager ==
    \* text-style getters: the fragments, the language and the default
    \* language vary
    \/ \E role \in {"main", "sub"}, l \in Languages, dl \in DefaultLanguageData :
          LET P(t, x) == TextStyleCall(role, t, x, l, dl)
          IN  LocalizedPair(CascadeFields, P)
    \* theme lookups: the screenshot's theme, the default theme and the
    \* customised themes vary
    \/ \E o \in ConfigManagerOps :
       \E dt \in ThemeNameInputs \cup {"<unset>"}, th \in ThemeNameInputs \cup {NoneStr, ""} :
       \E ts \in ThemeStylesInputs :
          Call(o, [config     |-> ScreenshotConfig(ConfigData("<unset>", dt, ts)),
                   screenshot |-> Screenshot(th, None, None),
                   language   |-> "en"])

\* ImageStyle calls
InitImageStyle ==
    \E x \in ShorthandInputs :
       \/ Call("get_padding_values", [self |-> ImageStyle(IntVal(7), x)])
       \/ Call("get_corner_radius_values", [self |-> ImageStyle(x, IntVal(7))])

Finish(r) ==
    /\ pc' = "done"
    /\ result' = r
    /\ UNCHANGED <<op, args, heap, frame, log>>

MergeTextStyles ==
    /\ pc = "call" /\ op = "merge_text_styles"
    /\ Finish(Return(merge_text_styles(args.defaults, args.override)))

MergeLocalizedTextStyles ==
    /\ pc = "call" /\ op = "merge_localized_text_styles"
    /\ Finish(Return(merge_localized_text_styles(args.defaults_style, args.override_style)))

GetStyleForLanguage ==
    /\ pc = "call" /\ op = "get_style_for_language"
    /\ Finish(get_style_for_language(args.localized_style, args.language,
                                     args.default_language))

GetThemeStyle ==
    /\ pc = "call" /\ op = "get_theme_style"
    /\ Finish(get_theme_style(args.config, args.screenshot))

GetMainTextStyle ==
    /\ pc = "call" /\ op = "get_main_text_style"
    /\ Finish(get_main_text_style(args.config, args.screenshot, args.language))

GetSubTextStyle ==
    /\ pc = "call" /\ op = "get_sub_text_style"
    /\ Finish(get_sub_text_style(args.config, args.screenshot, args.language))

GetTextAreaHeight ==
    /\ pc = "call" /\ op = "get_text_area_height"
    /\ Finish(get_text_area_height(args.config, args.screenshot))

GetBackgroundColor ==
    /\ pc = "call" /\ op = "get_background_color"
    /\ Finish(get_background_color(args.config, args.screenshot))

GetImageStyle ==
    /\ pc = "call" /\ op = "get_image_style"
    /\ Finish(get_image_style(args.config, args.screenshot))

GetTextLayout ==
    /\ pc = "call" /\ op = "get_text_layout"
    /\ Finish(get_text_layout(args.config, args.screenshot))

GetPaddingValues ==
    /\ pc = "call" /\ op = "get_padding_values"
    /\ Finish(Return(get_padding_values(args.self)))

GetCornerRadiusValues ==
    /\ pc = "call" /\ op = "get_corner_radius_values"
    /\ Finish(Return(get_corner_radius_values(args.self)))

NextStyleMerger ==
    \/ MergeTextStyles
    \/ MergeLocalizedTextStyles
    \/ GetStyleForLanguage

NextConfigManager ==
    \/ GetThemeStyle
    \/ GetMainTextStyle
    \/ GetSubTextStyle
    \/ GetTextAreaHeight
    \/ GetBackgroundColor
    \/ GetImageStyle
    \/ GetTextLayout

NextImageStyle ==
    \/ GetPaddingValues
    \/ GetCornerRadiusValues

\* the StyleMerger's static methods, called on their own
SpecStyleMerger == InitStyleMerger /\ [][NextStyleMerger]_vars

\* a ConfigManager over one configuration, asked about one screenshot
SpecConfigManager == InitConfigManager /\ [][NextConfigManager]_vars

\* ImageStyle's shorthand expansion
SpecImageStyle == InitImageStyle /\ [][NextImageStyle]_vars

----------------------------------------------------------------------------
(* What the specification says of style resolution, stated on its own terms *)

Absent == [present |-> FALSE]

Present(x) == [present |-> TRUE, val |-> x]

\* the scalar a per-language map yields: the exact language's entry, else the
\* default language's entry, else nothing
MapYields(m, language, default_language) ==
    IF language \in DOMAIN m THEN Present(m[language])
    ELSE IF default_language \in DOMAIN m THEN Present(m[default_language])
    ELSE Absent

\* the scalar a fragment (or None) yields for a field
Yields(fragment, f, language, default_language) ==
    IF fragment.kind = "None" THEN Absent
    ELSE IF fragment.f[f].kind = "None" THEN Absent
    ELSE IF fragment.f[f].kind = "direct" THEN Present(fragment.f[f].val)
    ELSE MapYields(fragment.f[f].map, language, default_language)

OrDefault(y, f) == IF y.present THEN y.val ELSE TextStyleDefault(f)

TextGetters == {"get_main_text_style", "get_sub_text_style"}

\* the role a text getter asks about
RoleAttr == IF op = "get_main_text_style" THEN "main_text_style" ELSE "sub_text_style"

\* the theme name in effect: the screenshot's theme when it names one, else
\* the configuration's default theme
EffectiveTheme ==
    IF args.screenshot.theme \notin {NoneStr, ""}
    THEN args.screenshot.theme
    ELSE args.config.default_theme

\* the theme-level and the screenshot-level fragment of the asked role
ThemeFragment ==
    IF EffectiveTheme \in DOMAIN args.config.theme_styles
    THEN args.config.theme_styles[EffectiveTheme][RoleAttr]
    ELSE None

ScreenshotFragment == args.screenshot[RoleAttr]

TextGetterReturned == pc = "done" /\ op \in TextGetters /\ result.kind = "return"

\* C1: for each of the ten fields, get_main_text_style / get_sub_text_style
\* return the value the screenshot fragment yields for the language, else the
\* value the theme fragment yields, else the built-in default.
C1_Cascade ==
    TextGetterReturned =>
        \A f \in Fields :
            LET s == Yields(ScreenshotFragment, f, args.language, args.config.default_language)
                t == Yields(ThemeFragment, f, args.language, args.config.default_language)
            IN  result.val.v[f] = IF s.present THEN s.val ELSE OrDefault(t, f)

\* a getter returned a field for which theme and screenshot yield different values
C1_Witness ==
    /\ TextGetterReturned
    /\ \E f \in Fields :
          LET s == Yields(ScreenshotFragment, f, args.language, args.config.default_language)
              t == Yields(ThemeFragment, f, args.language, args.config.default_language)
          IN  s.present /\ t.present /\ s.val # t.val /\ result.val.v[f] = s.val

\* C2: get_style_for_language gives every field its direct value, or the
\* map's entry for the target language, else the map's entry for
\* default_language, else the built-in TextStyle default.
C2_LanguageResolution ==
    (pc = "done" /\ op = "get_style_for_language") =>
        /\ result.kind = "return"
        /\ \A f \in Fields :
              result.val.v[f] =
                 OrDefault(Yields(args.localized_style, f, args.language,
                                  args.default_language), f)

\* a call returned the default language's entry of a map that lacks the target
\* language
C2_Witness ==
    /\ pc = "done" /\ op = "get_style_for_language"
    /\ \E f \in Fields :
          LET x == args.localized_style.f[f]
          IN  /\ x.kind = "dict"
              /\ args.language \notin DOMAIN x.map
              /\ args.default_language \in DOMAIN x.map
              /\ x.map[args.default_language] # TextStyleDefault(f)
              /\ result.val.v[f] = x.map[args.default_language]

\* C3: when override has exactly one field explicitly set, merge_text_styles
\* returns defaults with that one field replaced by override's value, and
\* every other field as in defaults.
C3_FieldIndependence ==
    (/\ pc = "done" /\ op = "merge_text_styles"
     /\ Cardinality(args.override.fields_set) = 1) =>
        \A f \in Fields :
            result.val.v[f] = IF f \in args.override.fields_set
                              THEN args.override.v[f]
                              ELSE args.defaults.v[f]

\* a merge in which override sets font_size to 0 and leaves unset a field that
\* defaults holds at a value other than the built-in default
C3_Witness ==
    /\ pc = "done" /\ op = "merge_text_styles"
    /\ args.override.fields_set = {"font_size"}
    /\ args.override.v["font_size"] = 0
    /\ args.defaults.v["shadow"] = TRUE
    /\ result.val.v["shadow"] = TRUE
    /\ result.val.v["font_size"] = 0

\* C4: merge_localized_text_styles returns the other argument when one is
\* None; otherwise a field that is a per-language map on both sides becomes
\* the key-wise union with override's entries winning, and a field override
\* leaves unset keeps defaults' value.
C4_LocalizedMerge ==
    (pc = "done" /\ op = "merge_localized_text_styles") =>
        LET D == args.defaults_style
            O == args.override_style
            M == result.val
        IN  /\ result.kind = "return"
            /\ O.kind = "None" => M = D
            /\ (D.kind = "None" /\ O.kind # "None") => M = O
            /\ (D.kind # "None" /\ O.kind # "None") =>
                  \A f \in Fields :
                     /\ (D.f[f].kind = "dict" /\ O.f[f].kind = "dict") =>
                           /\ M.f[f].kind = "dict"
                           /\ DOMAIN M.f[f].map = DOMAIN D.f[f].map \cup DOMAIN O.f[f].map
                           /\ \A k \in DOMAIN M.f[f].map :
                                 M.f[f].map[k] = IF k \in DOMAIN O.f[f].map
                                                 THEN O.f[f].map[k]
                                                 ELSE D.f[f].map[k]
                     /\ O.f[f].kind = "None" => M.f[f] = D.f[f]

\* a merge of two maps of the same field that disagree on a shared language
\* and where override brings a language of its own
C4_Witness ==
    /\ pc = "done" /\ op = "merge_localized_text_styles"
    /\ args.defaults_style.kind # "None" /\ args.override_style.kind # "None"
    /\ \E f \in Fields :
          LET d == args.defaults_style.f[f]
              o == args.override_style.f[f]
          IN  /\ d.kind = "dict" /\ o.kind = "dict"
              /\ \E k \in DOMAIN d.map \cap DOMAIN o.map : d.map[k] # o.map[k]
              /\ DOMAIN o.map \ DOMAIN d.map # {}
              /\ DOMAIN result.val.f[f].map = DOMAIN d.map \cup DOMAIN o.map

\* the key-wise union of a theme map and a screenshot map, the screenshot's
\* entry on shared keys
UnionMap(t, x) ==
    [k \in DOMAIN t \cup DOMAIN x |-> IF k \in DOMAIN x THEN x[k] ELSE t[k]]

\* C5: when the theme and the screenshot fragment both give a per-language
\* map for a field, the getter returns what the key-wise union of the two
\* maps resolves to for the language.
C5_UnionEquivalence ==
    TextGetterReturned =>
        \A f \in Fields :
            (/\ ThemeFragment.kind # "None" /\ ScreenshotFragment.kind # "None"
             /\ ThemeFragment.f[f].kind = "dict"
             /\ ScreenshotFragment.f[f].kind = "dict") =>
                result.val.v[f] =
                   OrDefault(MapYields(UnionMap(ThemeFragment.f[f].map,
                                                ScreenshotFragment.f[f].map),
                                       args.language, args.config.default_language), f)

\* the value of field f in the one fragment that configures it, when exactly
\* one of the two fragments does
OnlyValue(f) ==
    LET t == IF ThemeFragment.kind = "None" THEN None ELSE ThemeFragment.f[f]
        x == IF ScreenshotFragment.kind = "None" THEN None ELSE ScreenshotFragment.f[f]
    IN  IF t.kind # "None" /\ x.kind = "None" THEN t
        ELSE IF t.kind = "None" /\ x.kind # "None" THEN x
        ELSE None

\* a field with a direct value or an entry for the target language resolves to it
DirectOrExactResolves(o, f) ==
    /\ o.kind = "direct" => result.val.v[f] = o.val
    /\ (o.kind = "dict" /\ args.language \in DOMAIN o.map) =>
          result.val.v[f] = o.map[args.language]

\* C6 as stated: in a configuration that does not configure default_language,
\* a per-language field whose map lacks the target language resolves to the
\* field's built-in default.
C6_NoDefaultLanguage ==
    (TextGetterReturned /\ "default_language" \notin args.config.fields_set) =>
        \A f \in Fields :
            LET o == OnlyValue(f)
            IN  /\ DirectOrExactResolves(o, f)
                /\ (o.kind = "dict" /\ args.language \notin DOMAIN o.map) =>
                      result.val.v[f] = TextStyleDefault(f)

\* C6 (amended): a per-language field whose map lacks the target language
\* resolves to the built-in default when default_language is None; a
\* configuration that does not configure default_language has
\* default_language "en", and the field resolves to the map's "en" entry
\* when there is one; direct values and exact-language entries resolve to
\* themselves.
C6_DefaultLanguageEn ==
    TextGetterReturned =>
        /\ "default_language" \notin args.config.fields_set =>
              args.config.default_language = "en"
        /\ \A f \in Fields :
              LET o == OnlyValue(f)
              IN  /\ DirectOrExactResolves(o, f)
                  /\ (o.kind = "dict" /\ args.language \notin DOMAIN o.map) =>
                        /\ args.config.default_language = NoneStr =>
                              result.val.v[f] = TextStyleDefault(f)
                        /\ "default_language" \notin args.config.fields_set =>
                              result.val.v[f] = IF "en" \in DOMAIN o.map
                                                THEN o.map["en"]
                                                ELSE TextStyleDefault(f)

\* no default_language configured, the theme's offset is {en: (0, 50)}, the
\* language is "ja", and the getter returned offset (0, 50)
C6_Witness ==
    /\ TextGetterReturned
    /\ "default_language" \notin args.config.fields_set
    /\ args.language = "ja"
    /\ LET o == OnlyValue("offset")
       IN  /\ o.kind = "dict"
           /\ DOMAIN o.map = {"en"}
           /\ o.map["en"] = <<0, 50>>
    /\ result.val.v["offset"] = <<0, 50>>

\* the scalar values a TextStyle field takes in the model
ScalarValues(f) == {TextStyleDefault(f), Val1(f), Val2(f)}

\* C7: for every theme fragment and screenshot fragment (absent, empty or
\* set), language and default language, resolving a text style completes
\* without error and returns a TextStyle whose ten fields hold scalars.
C7_ResolutionTotal ==
    (pc = "done" /\ op \in TextGetters /\ EffectiveTheme \in {"standard", "standard_inverted"}) =>
        /\ result.kind = "return"
        /\ result.val.kind = "TextStyle"
        /\ DOMAIN result.val.v = Fields
        /\ \A f \in Fields : result.val.v[f] \in ScalarValues(f)

\* a getter returned although a map of the screenshot fragment has neither
\* the language nor a default language to fall back on, the theme fragment
\* being absent
C7_Witness ==
    /\ TextGetterReturned
    /\ args.config.default_language = NoneStr
    /\ ThemeFragment.kind = "None"
    /\ ScreenshotFragment.kind # "None"
    /\ \E f \in Fields :
          /\ ScreenshotFragment.f[f].kind = "dict"
          /\ args.language \notin DOMAIN ScreenshotFragment.f[f].map
          /\ result.val.v[f] = TextStyleDefault(f)

\* the Theme customising the theme in effect, or None
ThemeOverride ==
    IF EffectiveTheme \in DOMAIN args.config.theme_styles
    THEN args.config.theme_styles[EffectiveTheme]
    ELSE None

\* C8: get_text_area_height, get_background_color and get_image_style return
\* the value the theme override sets, whatever it is (0 and "" included), and
\* 400, "#F5F5F5", ImageStyle(corner_radius=0, padding=0) only when it sets none.
C8_OverrideIfPresent ==
    (pc = "done" /\ EffectiveTheme \in {"standard", "standard_inverted"}) =>
        /\ op = "get_text_area_height" =>
              result = IF ThemeOverride.kind # "None"
                          /\ ThemeOverride.text_area_height.kind # "None"
                       THEN Return(ThemeOverride.text_area_height.val)
                       ELSE Return(400)
        /\ op = "get_background_color" =>
              result = IF ThemeOverride.kind # "None"
                          /\ ThemeOverride.background_color # NoneStr
                       THEN Return(ThemeOverride.background_color)
                       ELSE Return("#F5F5F5")
        /\ op = "get_image_style" =>
              result = IF ThemeOverride.kind # "None"
                          /\ ThemeOverride.image_style.kind # "None"
                       THEN Return(ThemeOverride.image_style)
                       ELSE Return(ImageStyle(IntVal(0), IntVal(0)))

\* the shorthand a call expands
ShorthandArg ==
    IF op = "get_padding_values" THEN args.self.padding ELSE args.self.corner_radius

\* C9: get_padding_values and get_corner_radius_values map v to (v,v,v,v),
\* [a,b] to (a,b,a,b), [a,b,c] to (a,b,c,b), a 4-element list to itself, []
\* to (0,0,0,0) and a list of 5 or more to its first element four times.
C9_Shorthand ==
    (pc = "done" /\ op \in {"get_padding_values", "get_corner_radius_values"}) =>
        LET x == ShorthandArg
            r == result.val
        IN  /\ result.kind = "return"
            /\ x.kind = "int" => r = <<x.val, x.val, x.val, x.val>>
            /\ (x.kind = "list" /\ Len(x.val) = 2) => r = <<x.val[1], x.val[2], x.val[1], x.val[2]>>
            /\ (x.kind = "list" /\ Len(x.val) = 3) => r = <<x.val[1], x.val[2], x.val[3], x.val[2]>>
            /\ (x.kind = "list" /\ Len(x.val) = 4) => r = x.val
            /\ (x.kind = "list" /\ Len(x.val) = 0) => r = <<0, 0, 0, 0>>
            /\ (x.kind = "list" /\ Len(x.val) >= 5) => r = <<x.val[1], x.val[1], x.val[1], x.val[1]>>

\* a list of five elements was expanded to its non-zero first element
C9_Witness ==
    /\ pc = "done" /\ op = "get_corner_radius_values"
    /\ args.self.corner_radius.kind = "list"
    /\ Len(args.self.corner_radius.val) = 5
    /\ args.self.corner_radius.val[1] = 2
    /\ result.val = <<2, 2, 2, 2>>

\* C10: get_theme_style and get_text_layout raise the unknown-theme error
\* exactly when the theme name in effect is not "standard" or
\* "standard_inverted", both on the same screenshots; get_text_layout returns
\* "standard" for "standard" and "inverted" for "standard_inverted".
C10_ThemeLookup ==
    (pc = "done" /\ op \in {"get_theme_style", "get_text_layout"}) =>
        /\ result.kind = "raise" <=> EffectiveTheme \notin {"standard", "standard_inverted"}
        /\ result.kind = "raise" => result = Raise("ValueError")
        /\ get_theme_style(args.config, args.screenshot).kind = "raise"
              <=> get_text_layout(args.config, args.screenshot).kind = "raise"
        /\ (op = "get_text_layout" /\ EffectiveTheme = "standard") =>
              result = Return("standard")
        /\ (op = "get_text_layout" /\ EffectiveTheme = "standard_inverted") =>
              result = Return("inverted")

\* get_text_layout returned "inverted" for a screenshot without a theme under
\* the default theme "standard_inverted"
C10_Witness ==
    /\ pc = "done" /\ op = "get_text_layout"
    /\ args.screenshot.theme = NoneStr
    /\ args.config.default_theme = "standard_inverted"
    /\ result = Return("inverted")

----------------------------------------------------------------------------
(* Python float: IEEE 754 binary64, round to nearest, ties to even *)

\* number of significand bits of a Python float
MantissaBits == 53

\* a float: sign (1, -1, or 0 for zero), the significand's MantissaBits bits
\* (most significant first, the first one 1) and the exponent e of the
\* first bit: the value is sign * m[1].m[2]m[3]... * 2^e
FloatZero == [sign |-> 0, m |-> <<>>, e |-> 0]

Float(sign, m, e) == [sign |-> sign, m |-> m, e |-> e]

Sign(n) == IF n > 0 THEN 1 ELSE IF n < 0 THEN -1 ELSE 0

Abs(n) == IF n < 0 THEN -n ELSE n

Zeros(k) == [i \in 1..k |-> 0]

\* the bits of a natural number, most significant first (none for 0)
RECURSIVE NatBits(_)
NatBits(n) == IF n = 0 THEN <<>> ELSE NatBits(n \div 2) \o <<n % 2>>

\* the natural number of the first k bits of b
RECURSIVE BitsValue(_, _)
BitsValue(b, k) ==
    IF k = 0 THEN 0 ELSE 2 * BitsValue(b, k - 1) + b[k]

\* b + 1 on Len(b) bits, for b not all ones
Increment(b) ==
    LET last0 == CHOOSE i \in 1..Len(b) :
                    b[i] = 0 /\ \A j \in (i + 1)..Len(b) : b[j] = 1
    IN  [i \in 1..Len(b) |-> IF i < last0 THEN b[i] ELSE IF i = last0 THEN 1 ELSE 0]

\* the float nearest to sign * b[1].b[2]b[3]... * 2^e (b[1] = 1), where
\* sticky says that the exact value has further non-zero bits after b
RoundToNearestEven(sign, b, sticky, e) ==
    IF Len(b) <= MantissaBits
    THEN Float(sign, b \o Zeros(MantissaBits - Len(b)), e)
    ELSE LET keep  == SubSeq(b, 1, MantissaBits)
             guard == b[MantissaBits + 1]
             rest  == sticky \/ \E i \in (MantissaBits + 2)..Len(b) : b[i] = 1
             up    == guard = 1 /\ (rest \/ keep[MantissaBits] = 1)
         IN  IF ~up THEN Float(sign, keep, e)
             ELSE IF \A i \in 1..MantissaBits : keep[i] = 1
             THEN Float(sign, <<1>> \o Zeros(MantissaBits - 1), e + 1)
             ELSE Float(sign, Increment(keep), e)

\* the exponent e of n/d for n, d > 0: 2^e <= n/d < 2^(e+1)
RECURSIVE RatioExponent(_, _)
RatioExponent(n, d) ==
    IF n >= 2 * d THEN RatioExponent(n, 2 * d) + 1
    ELSE IF n < d THEN RatioExponent(2 * n, d) - 1
    ELSE 0

\* the k bits of the natural number v < 2^k, most significant first
Bits(v, k) == [i \in 1..k |-> (v \div 2^(k - i)) % 2]

\* how many bits one step of a division or a product works out
StepBits(k) == IF k > 8 THEN 8 ELSE k

\* the first k bits of r/d in binary, for d <= r < 2d or after a first bit:
\* long division, StepBits bits at a time
RECURSIVE QuotientBits(_, _, _)
QuotientBits(r, d, k) ==
    IF k = 0 THEN <<>>
    ELSE Bits((r * 2^(StepBits(k) - 1)) \div d, StepBits(k))
            \o QuotientBits(2 * ((r * 2^(StepBits(k) - 1)) % d), d, k - StepBits(k))

\* what is left of r after k bits of r/d
RECURSIVE QuotientRest(_, _, _)
QuotientRest(r, d, k) ==
    IF k = 0 THEN r
    ELSE QuotientRest(2 * ((r * 2^(StepBits(k) - 1)) % d), d, k - StepBits(k))

\* Python's a / b on integers (b # 0): the float nearest to the quotient
TrueDiv(a, b) ==
    IF a = 0 THEN FloatZero
    ELSE LET e == RatioExponent(Abs(a), Abs(b))
             n == IF e < 0 THEN Abs(a) * 2^(-e) ELSE Abs(a)
             d == IF e > 0 THEN Abs(b) * 2^e ELSE Abs(b)
         IN  RoundToNearestEven(Sign(a) * Sign(b),
                                QuotientBits(n, d, MantissaBits + 1),
                                QuotientRest(n, d, MantissaBits + 1) # 0, e)

\* h * (bits k - w + 1 .. k of b) + c, for naturals h, c
MulStep(b, k, w, h, c) == h * BitsValue(SubSeq(b, k - w + 1, k), w) + c

\* the bits of h * (the first k bits of b) + c, for naturals h, c: long
\* multiplication from the last bit, StepBits bits at a time
RECURSIVE MulCarry(_, _, _, _)
MulCarry(b, k, h, c) ==
    IF k = 0 THEN NatBits(c)
    ELSE MulCarry(b, k - StepBits(k), h, MulStep(b, k, StepBits(k), h, c) \div 2^StepBits(k))
            \o Bits(MulStep(b, k, StepBits(k), h, c) % 2^StepBits(k), StepBits(k))

\* Python's n * x for an integer n and a float x: the float nearest to the
\* product
IntTimesFloat(n, x) ==
    IF n = 0 \/ x.sign = 0 THEN FloatZero
    ELSE LET p == MulCarry(x.m, MantissaBits, Abs(n), 0)
         IN  RoundToNearestEven(Sign(n) * x.sign, p, FALSE,
                                x.e + Len(p) - MantissaBits)

\* x < y on floats
FloatLess(x, y) ==
    LET MagLess(u, v) ==
            \/ u.e < v.e
            \/ /\ u.e = v.e
               /\ \E i \in 1..MantissaBits :
                     /\ u.m[i] < v.m[i]
                     /\ \A j \in 1..(i - 1) : u.m[j] = v.m[j]
    IN  IF x.sign # y.sign THEN x.sign < y.sign
        ELSE IF x.sign = 1 THEN MagLess(x, y)
        ELSE IF x.sign = -1 THEN MagLess(y, x)
        ELSE FALSE

\* Python's min(x, y): y when y < x, else x
FloatMin(x, y) == IF FloatLess(y, x) THEN y ELSE x

\* Python's int(x): truncation towards zero
FloatToInt(x) ==
    IF x.sign = 0 \/ x.e < 0 THEN 0
    ELSE x.sign * BitsValue(x.m, x.e + 1)

----------------------------------------------------------------------------
(* image_processor.py: ImageProcessor, placement *)

\* the scale factor taking the larger of the two ratios
calculate_scale_factor_max(original_width, original_height, target_width, target_height) ==
    LET scale_width  == TrueDiv(target_width, original_width)
        scale_height == TrueDiv(target_height, original_height)
    IN  IF FloatLess(scale_width, scale_height) THEN scale_height ELSE scale_width

\* ImageProcessor.calculate_scale_factor, for original_width, original_height # 0
calculate_scale_factor(original_width, original_height, target_width, target_height) ==
    LET scale_width  == TrueDiv(target_width, original_width)
        scale_height == TrueDiv(target_height, original_height)
    IN  FloatMin(scale_width, scale_height)

\* ImageProcessor.calculate_screenshot_dimensions:
\* (scaled_width, scaled_height, x_position, y_position)
calculate_screenshot_dimensions(canvas_width, canvas_height, text_area_height, padding_top, padding_right, padding_bottom, padding_left, original_width, original_height) ==
    IF original_width = 0 \/ original_height = 0 THEN Raise("ZeroDivisionError")
    ELSE
    LET available_width  == canvas_width - padding_left - padding_right
        available_height == canvas_height - text_area_height - padding_top - padding_bottom
        scale == calculate_scale_factor(original_width, original_height,
                                        available_width, available_height)
        scaled_width  == FloatToInt(IntTimesFloat(original_width, scale))
        scaled_height == FloatToInt(IntTimesFloat(original_height, scale))
        x_position == padding_left + (available_width - scaled_width) \div 2
        y_position == text_area_height + padding_top
                         + (available_height - scaled_height) \div 2
    IN  Return(<<scaled_width, scaled_height, x_position, y_position>>)

\* ImageProcessor.resize_image: the size of the resized image; Image.resize
\* refuses a target without at least one pixel each way
resize_image(image, width, height) ==
    IF width < 1 \/ height < 1 THEN Raise("ValueError")
    ELSE Return([size |-> <<width, height>>])

----------------------------------------------------------------------------
(* Exact fractions, for the mask values before they are cut to uint8 *)

RECURSIVE GCD(_, _)
GCD(a, b) == IF b = 0 THEN a ELSE GCD(b, a % b)

LCM(a, b) == (a \div GCD(a, b)) * b

\* the fraction n/d (n >= 0, d > 0) in lowest terms
Rat(n, d) == LET g == GCD(n, d) IN [n |-> n \div g, d |-> d \div g]

RatFloor(a) == a.n \div a.d

\* a < b
RatLess(a, b) ==
    \/ RatFloor(a) < RatFloor(b)
    \/ /\ RatFloor(a) = RatFloor(b)
       /\ (a.n % a.d) * b.d < (b.n % b.d) * a.d

\* numpy.minimum on two values
RatMin(a, b) == IF RatLess(b, a) THEN b ELSE a

\* the integer part of the mean of four values
MeanFloor(a, b, c, d) ==
    LET q == RatFloor(a) + RatFloor(b) + RatFloor(c) + RatFloor(d)
        l == LCM(LCM(a.d, b.d), LCM(c.d, d.d))
        f == (a.n % a.d) * (l \div a.d) + (b.n % b.d) * (l \div b.d)
               + (c.n % c.d) * (l \div c.d) + (d.n % d.d) * (l \div d.d)
    IN  (q + f \div l) \div 4

----------------------------------------------------------------------------
(* image_processor.py: ImageProcessor, rounded corners *)

\* supersampling factor of the mask (scale)
SuperSampling == 2

\* superellipse exponent (n)
SuperellipseN == 4

\* transition_width, in thousandths
TransitionWidth == 15

\* value of a fully opaque mask element
Opaque == 255

\* an image: its size and its alpha channel, either the one it was loaded or
\* resized with or the rows of a mask put on it
Image(width, height) == [size |-> <<width, height>>, alpha |-> [kind |-> "original"]]

\* the index arrays of the four corners at the supersampled resolution: the
\* first column and row of the corner's box (negative when the box starts
\* left of or above the mask), its side r, and twice the centre (cx, cy)
CornerBox(corner, radius, ss_width, ss_height) ==
    LET r == radius * SuperSampling
    IN  CASE corner = "tl" ->
               [x0 |-> 0, y0 |-> 0, r |-> r, radius |-> radius,
                cx2 |-> 2 * r - 1, cy2 |-> 2 * r - 1]
          [] corner = "tr" ->
               [x0 |-> ss_width - r, y0 |-> 0, r |-> r, radius |-> radius,
                cx2 |-> 2 * (ss_width - r) + 1, cy2 |-> 2 * r - 1]
          [] corner = "br" ->
               [x0 |-> ss_width - r, y0 |-> ss_height - r, r |-> r, radius |-> radius,
                cx2 |-> 2 * (ss_width - r) + 1, cy2 |-> 2 * (ss_height - r) + 1]
          [] corner = "bl" ->
               [x0 |-> 0, y0 |-> ss_height - r, r |-> r, radius |-> radius,
                cx2 |-> 2 * r - 1, cy2 |-> 2 * (ss_height - r) + 1]

\* numpy indexing: every index i of an axis of size n must have -n <= i < n
IndexInBounds(box, ss_width, ss_height) ==
    /\ -ss_width <= box.x0 /\ box.x0 + box.r - 1 < ss_width
    /\ -ss_height <= box.y0 /\ box.y0 + box.r - 1 < ss_height

\* apply_corner's alpha for the element with index (x, y) of the index arrays
CornerAlpha(box, x, y) ==
    LET u == Abs(2 * x - box.cx2)        \* 2 * |corner_x - cx|
        v == Abs(2 * y - box.cy2)
        \* distance = (u / (2 * scaled_radius))^n + (v / (2 * scaled_radius))^n = N / D
        N == u^SuperellipseN + v^SuperellipseN
        D == (2 * box.radius * SuperSampling)^SuperellipseN
    IN  IF 1000 * N < (1000 - TransitionWidth) * D THEN Rat(Opaque, 1)
        ELSE IF 1000 * N > (1000 + TransitionWidth) * D THEN Rat(0, 1)
        ELSE Rat(Opaque * ((1000 + TransitionWidth) * D - 1000 * N),
                 2 * TransitionWidth * D)

\* the orders in which an assignment through index arrays may store its
\* elements; of two stores to one element the later one remains
WriteOrders == {"first", "last"}

\* a cutout that is stored over the whole mask, not through the corner's
\* index arrays
apply_corner_whole_mask(mask, box, ss_width, ss_height, order) ==
    [s \in DOMAIN mask |-> RatMin(mask[s], CornerAlpha(box, s[1], s[2]))]

\* mask[corner_y, corner_x] = np.minimum(mask[corner_y, corner_x], alpha):
\* the mask after the assignment; an index below 0 counts from the end
apply_corner(mask, box, ss_width, ss_height, order) ==
    [s \in DOMAIN mask |->
        LET xs == { x \in box.x0..(box.x0 + box.r - 1) : x % ss_width = s[1] }
            ys == { y \in box.y0..(box.y0 + box.r - 1) : y % ss_height = s[2] }
            Pick(S) == IF order = "last"
                       THEN CHOOSE i \in S : \A j \in S : j <= i
                       ELSE CHOOSE i \in S : \A j \in S : i <= j
        IN  IF xs = {} \/ ys = {} THEN mask[s]
            ELSE RatMin(mask[s], CornerAlpha(box, Pick(xs), Pick(ys)))]

\* the corners in the order _generate_squircle_mask processes them
CornerOrder == <<"tl", "tr", "br", "bl">>

\* the mask at the supersampled resolution after the first k corners, or
\* "IndexError" once a corner's index arrays leave the mask
RECURSIVE AfterCorners(_, _, _, _, _)
AfterCorners(k, radii, ss_width, ss_height, order) ==
    IF k = 0
    THEN Return([s \in (0..(ss_width - 1)) \X (0..(ss_height - 1)) |-> Rat(Opaque, 1)])
    ELSE LET before == AfterCorners(k - 1, radii, ss_width, ss_height, order)
             box    == CornerBox(CornerOrder[k], radii[k], ss_width, ss_height)
         IN  IF before.kind = "raise" \/ radii[k] <= 0 THEN before
             ELSE IF ~IndexInBounds(box, ss_width, ss_height) THEN Raise("IndexError")
             ELSE Return(apply_corner(before.val, box, ss_width, ss_height, order))

\* ImageProcessor._generate_squircle_mask: the rows of the uint8 mask;
\* radii = (radius_tl, radius_tr, radius_br, radius_bl)
generate_squircle_mask(width, height, radii, order) ==
    LET ss_width  == width * SuperSampling
        ss_height == height * SuperSampling
        ss == AfterCorners(4, radii, ss_width, ss_height, order)
    IN  IF ss.kind = "raise" THEN ss
        ELSE Return([y \in 1..height |-> [x \in 1..width |->
                 MeanFloor(ss.val[<<2 * x - 2, 2 * y - 2>>], ss.val[<<2 * x - 1, 2 * y - 2>>],
                           ss.val[<<2 * x - 2, 2 * y - 1>>], ss.val[<<2 * x - 1, 2 * y - 1>>])]])

\* ImageProcessor.apply_corner_radius
apply_corner_radius(image, radii, order) ==
    IF \A k \in 1..4 : radii[k] <= 0 THEN Return(image)
    ELSE LET mask_array == generate_squircle_mask(image.size[1], image.size[2], radii, order)
         IN  IF mask_array.kind = "raise" THEN mask_array
             ELSE Return([size  |-> image.size,
                          alpha |-> [kind |-> "mask", rows |-> mask_array.val]])

----------------------------------------------------------------------------
(* image_processor.py: ImageProcessor.parse_color *)

\* A colour string is the sequence of its characters.

HexLower == <<"0", "1", "2", "3", "4", "5", "6", "7", "8", "9", "a", "b", "c", "d", "e", "f">>

HexUpper == <<"0", "1", "2", "3", "4", "5", "6", "7", "8", "9", "A", "B", "C", "D", "E", "F">>

IsHexDigit(c) == \E i \in 1..16 : HexLower[i] = c \/ HexUpper[i] = c

HexDigitValue(c) == (CHOOSE i \in 1..16 : HexLower[i] = c \/ HexUpper[i] = c) - 1

IsSpace(c) == c \in {" ", "\t"}

\* int(s, 16) for a string s of two characters: two digits, or one digit
\* after a sign, after a blank or before a blank
IntBase16(s) ==
    IF IsHexDigit(s[1]) /\ IsHexDigit(s[2])
    THEN Return(16 * HexDigitValue(s[1]) + HexDigitValue(s[2]))
    ELSE IF (s[1] = "+" \/ IsSpace(s[1])) /\ IsHexDigit(s[2])
    THEN Return(HexDigitValue(s[2]))
    ELSE IF s[1] = "-" /\ IsHexDigit(s[2])
    THEN Return(-HexDigitValue(s[2]))
    ELSE IF IsHexDigit(s[1]) /\ IsSpace(s[2])
    THEN Return(HexDigitValue(s[1]))
    ELSE Raise("ValueError")

\* the channels int(color[0:2], 16), int(color[2:4], 16), ... of the first k
\* pairs of characters, or the first error
ParseChannels(color, k) ==
    LET ch == [i \in 1..k |-> IntBase16(SubSeq(color, 2 * i - 1, 2 * i))]
    IN  IF \E i \in 1..k : ch[i].kind = "raise" THEN Raise("ValueError")
        ELSE Return([i \in 1..k |-> ch[i].val])

\* ImageProcessor.parse_color: (r, g, b, a)
parse_color(color) ==
    LET c == IF Len(color) > 0 /\ color[1] = "#" THEN Tail(color) ELSE color
    IN  IF Len(c) = 6
        THEN LET rgb == ParseChannels(c, 3)
             IN  IF rgb.kind = "raise" THEN rgb ELSE Return(rgb.val \o <<255>>)
        ELSE IF Len(c) = 8 THEN ParseChannels(c, 4)
        ELSE Return(<<0, 0, 0, 255>>)

\* the characters of the colour strings that styles and themes hold
Characters(s) ==
    CASE s = ""        -> <<>>
      [] s = "#FFFFFF" -> <<"#", "F", "F", "F", "F", "F", "F">>
      [] s = "#000000" -> <<"#", "0", "0", "0", "0", "0", "0">>
      [] s = "#1A1A1A" -> <<"#", "1", "A", "1", "A", "1", "A">>
      [] s = "#333333" -> <<"#", "3", "3", "3", "3", "3", "3">>
      [] s = "#F5F5F5" -> <<"#", "F", "5", "F", "5", "F", "5">>
      [] s = "#GGGGGG" -> <<"#", "G", "G", "G", "G", "G", "G">>
      [] s = "#00000080" -> <<"#", "0", "0", "0", "0", "0", "0", "8", "0">>

----------------------------------------------------------------------------
(* text_renderer.py: TextPosition, TextRenderer *)

\* TextPosition(x, y, width, height, text_area_height, is_main, has_sub_text, is_inverted)
TextPosition(x, y, width, height, text_area_height, is_main, has_sub_text, is_inverted) ==
    [x |-> x, y |-> y, width |-> width, height |-> height,
     text_area_height |-> text_area_height, is_main |-> is_main,
     has_sub_text |-> has_sub_text, is_inverted |-> is_inverted]

\* the float literals 0.65 and 0.25: the floats nearest to 65/100 and 25/100
Float065 == TrueDiv(65, 100)

Float025 == TrueDiv(25, 100)

\* int(text_area_height * 0.65) and int(text_area_height * 0.25)
Fraction065(text_area_height) ==
    FloatToInt(IntTimesFloat(text_area_height, Float065))

Fraction025(text_area_height) ==
    FloatToInt(IntTimesFloat(text_area_height, Float025))

\* the vertical position that anchors the main text of the inverted layout
\* like that of the standard layout
calculate_vertical_position_no_inversion(text_area_height, text_height, bbox_top, is_main, has_sub_text, is_inverted) ==
    IF is_main
    THEN IF has_sub_text
         THEN Fraction025(text_area_height) - text_height \div 2
         ELSE (text_area_height - text_height) \div 2 - bbox_top
    ELSE Fraction065(text_area_height) - text_height \div 2

\* TextRenderer._calculate_vertical_position
calculate_vertical_position(text_area_height, text_height, bbox_top, is_main, has_sub_text, is_inverted) ==
    IF is_inverted
    THEN IF is_main
         THEN IF has_sub_text
              THEN Fraction065(text_area_height) - text_height \div 2
              ELSE (text_area_height - text_height) \div 2 - bbox_top
         ELSE Fraction025(text_area_height) - text_height \div 2
    ELSE IF is_main
         THEN IF has_sub_text
              THEN Fraction025(text_area_height) - text_height \div 2
              ELSE (text_area_height - text_height) \div 2 - bbox_top
         ELSE Fraction065(text_area_height) - text_height \div 2

\* TextRenderer._calculate_text_position; bbox = (left, top, right, bottom)
\* is what draw.textbbox((0, 0), text, font) measures
calculate_text_position(bbox, position, style) ==
    LET text_width  == bbox[3] - bbox[1]
        text_height == bbox[4] - bbox[2]
        x == (position.width - text_width) \div 2
        y == calculate_vertical_position(position.text_area_height, text_height, bbox[2],
                                         position.is_main, position.has_sub_text,
                                         position.is_inverted)
    IN  <<x + style.v["offset"][1], y + style.v["offset"][2]>>

\* a draw.text call: position, text and fill colour
DrawText(xy, text, fill) == [xy |-> xy, text |-> text, fill |-> fill]

\* what a call did to the canvas and how it ended
Drawn(draws, outcome) == [kind |-> outcome.kind, draws |-> draws, outcome |-> outcome]

\* TextRenderer._draw_shadow: the draw.text calls it makes, and how it ends
draw_shadow(text, x, y, style) ==
    LET shadow_color == parse_color(Characters(style.v["shadow_color"]))
    IN  IF shadow_color.kind = "raise" THEN Drawn(<<>>, shadow_color)
        ELSE Drawn(<<DrawText(<<x + style.v["shadow_offset"][1],
                                y + style.v["shadow_offset"][2]>>, text, shadow_color.val)>>,
                   Return(None))

\* the end of render_text: the main text drawn after the shadow, with
\* text_color the parsed style.color
DrawMainText(text, xy, shadow, text_color) ==
    IF shadow.kind = "raise" THEN shadow
    ELSE IF text_color.kind = "raise" THEN Drawn(shadow.draws, text_color)
    ELSE Drawn(shadow.draws \o <<DrawText(xy, text, text_color.val)>>, Return(None))

\* render_text from the position (x, y) on: the shadow if enabled, then the
\* main text
RenderTextAt(text, style, xy) ==
    DrawMainText(text, xy,
                 IF style.v["shadow"] THEN draw_shadow(text, xy[1], xy[2], style)
                 ELSE Drawn(<<>>, Return(None)),
                 parse_color(Characters(style.v["color"])))

\* TextRenderer.render_text: the draw.text calls it makes, in order, and how
\* it ends
render_text(text, bbox, position, style) ==
    RenderTextAt(text, style, calculate_text_position(bbox, position, style))

----------------------------------------------------------------------------
(* Placement calls *)

CanvasWidths == 0..MaxCanvas

CanvasHeights == {0, MaxCanvas \div 2, MaxCanvas}

TextAreaInputs == {0, 3}

\* (top, right, bottom, left)
PaddingInputs == { <<0, 0, 0, 0>>, <<1, 0, 0, 1>>, <<1, 2, 0, 1>> }

SourceWidths == 1..MaxSource

SourceHeights == {1, MaxSource \div 2, MaxSource}

InitPlacement ==
    \E cw \in CanvasWidths, ch \in CanvasHeights, t \in TextAreaInputs :
    \E p \in PaddingInputs, ow \in SourceWidths, oh \in SourceHeights :
       Call("calculate_screenshot_dimensions",
            [canvas_width |-> cw, canvas_height |-> ch, text_area_height |-> t,
             padding_top |-> p[1], padding_right |-> p[2],
             padding_bottom |-> p[3], padding_left |-> p[4],
             original_width |-> ow, original_height |-> oh])

CalculateScreenshotDimensions ==
    /\ pc = "call" /\ op = "calculate_screenshot_dimensions"
    /\ Finish(calculate_screenshot_dimensions(
                 args.canvas_width, args.canvas_height, args.text_area_height,
                 args.padding_top, args.padding_right, args.padding_bottom,
                 args.padding_left, args.original_width, args.original_height))

NextPlacement == CalculateScreenshotDimensions

\* the placement of a source image on a canvas
SpecPlacement == InitPlacement /\ [][NextPlacement]_vars

----------------------------------------------------------------------------
(* What the specification says of placement, stated on its own terms *)

AvailW == args.canvas_width - args.padding_left - args.padding_right

AvailH == args.canvas_height - args.text_area_height - args.padding_top - args.padding_bottom

\* a placement call has returned for a region that is not negative
Placed ==
    /\ pc = "done" /\ op = "calculate_screenshot_dimensions"
    /\ AvailW >= 0 /\ AvailH >= 0

\* the width is the limiting dimension: availW/sourceW <= availH/sourceH
WidthLimits == AvailW * args.original_height <= AvailH * args.original_width

\* C11: the scale is min(availW/sourceW, availH/sourceH) without a cap at 1,
\* and the scaled size is the floor of source * scale: the limiting dimension
\* fills its available extent exactly and the other one is the floor of the
\* proportional extent, also when the source is smaller than the region.
C11_ScaleToFit ==
    Placed =>
        /\ result.kind = "return"
        /\ IF WidthLimits
           THEN /\ result.val[1] = AvailW
                /\ result.val[2] = (args.original_height * AvailW) \div args.original_width
           ELSE /\ result.val[2] = AvailH
                /\ result.val[1] = (args.original_width * AvailH) \div args.original_height

Max(a, b) == IF a >= b THEN a ELSE b

\* C12: for a region that is not negative and a positive source size, the
\* placed box lies inside the padded region, is centred in it to within a
\* pixel and keeps the source's proportions to within a pixel.
C12_BoxInsideRegion ==
    Placed =>
        /\ result.kind = "return"
        /\ LET w == result.val[1]
               h == result.val[2]
               x == result.val[3]
               y == result.val[4]
               freeLeft   == x - args.padding_left
               freeRight  == (args.canvas_width - args.padding_right) - (x + w)
               freeTop    == y - (args.text_area_height + args.padding_top)
               freeBottom == (args.canvas_height - args.padding_bottom) - (y + h)
           IN  /\ 0 <= w /\ w <= AvailW
               /\ 0 <= h /\ h <= AvailH
               /\ freeLeft >= 0 /\ freeRight >= 0
               /\ freeTop >= 0 /\ freeBottom >= 0
               /\ Abs(freeLeft - freeRight) <= 1
               /\ Abs(freeTop - freeBottom) <= 1
               /\ Abs(w * args.original_height - h * args.original_width)
                     <= Max(args.original_width, args.original_height)

\* a source enlarged into a region with free space on both sides of it
C12_Witness ==
    /\ Placed
    /\ result.kind = "return"
    /\ result.val[1] > args.original_width
    /\ result.val[3] > args.padding_left
    /\ args.padding_left > 0
    /\ args.text_area_height > 0

----------------------------------------------------------------------------
(* Rounded-corner calls *)

Sides == 0..MaxSide

\* (radius_tl, radius_tr, radius_br, radius_bl)
RadiiInputs == [1..4 -> 0..MaxRadius]

\* radii that include values below 0
SignedRadiiInputs == [1..4 -> {-1, 0, 1, MaxRadius}]

InitMask ==
    \/ \E w \in Sides, h \in Sides, r \in RadiiInputs :
          Call("_generate_squircle_mask", [width |-> w, height |-> h, radii |-> r])
    \/ \E w \in Sides, h \in Sides, r \in SignedRadiiInputs :
          Call("apply_corner_radius", [image |-> Image(w, h), radii |-> r])

GenerateSquircleMask ==
    /\ pc = "call" /\ op = "_generate_squircle_mask"
    /\ \E order \in WriteOrders :
          Finish(generate_squircle_mask(args.width, args.height, args.radii, order))

ApplyCornerRadius ==
    /\ pc = "call" /\ op = "apply_corner_radius"
    /\ \E order \in WriteOrders :
          Finish(apply_corner_radius(args.image, args.radii, order))

NextMask ==
    \/ GenerateSquircleMask
    \/ ApplyCornerRadius

\* the rounded corners of an image
SpecMask == InitMask /\ [][NextMask]_vars

----------------------------------------------------------------------------
(* What the specification says of rounded corners, stated on its own terms *)

MaskOps == {"_generate_squircle_mask", "apply_corner_radius"}

MaskWidth == IF op = "apply_corner_radius" THEN args.image.size[1] ELSE args.width

MaskHeight == IF op = "apply_corner_radius" THEN args.image.size[2] ELSE args.height

\* a call has produced a mask
MaskMade ==
    /\ pc = "done" /\ op \in MaskOps
    /\ result.kind = "return"
    /\ op = "apply_corner_radius" => result.val.alpha.kind = "mask"

\* the rows of the mask produced
MaskRows == IF op = "apply_corner_radius" THEN result.val.alpha.rows ELSE result.val

\* the pixel at column x, row y (from 1)
MaskAt(x, y) == MaskRows[y][x]

\* C14: for every width and height >= 0 and every four radii >= 0, also
\* radii larger than the image, mask generation completes and the mask has
\* exactly height rows of width pixels.
C14_MaskNeverFails ==
    (pc = "done" /\ op \in MaskOps /\ \A k \in 1..4 : args.radii[k] >= 0) =>
        /\ result.kind = "return"
        /\ MaskMade =>
              /\ Len(MaskRows) = MaskHeight
              /\ \A y \in 1..MaskHeight : Len(MaskRows[y]) = MaskWidth

\* pixel (x, y) lies in the radius x radius box of corner k
InCornerBox(k, x, y) ==
    LET r == args.radii[k]
    IN  CASE k = 1 -> x <= r /\ y <= r
          [] k = 2 -> x > MaskWidth - r /\ y <= r
          [] k = 3 -> x > MaskWidth - r /\ y > MaskHeight - r
          [] k = 4 -> x <= r /\ y > MaskHeight - r

\* the pixel in corner k of the image
CornerPixel(k) ==
    CASE k = 1 -> <<1, 1>>
      [] k = 2 -> <<MaskWidth, 1>>
      [] k = 3 -> <<MaskWidth, MaskHeight>>
      [] k = 4 -> <<1, MaskHeight>>

\* C15: every pixel outside the radius x radius boxes of the corners with a
\* positive radius stays 255, so a corner whose radius is <= 0 cuts nothing;
\* with all four radii <= 0 apply_corner_radius returns the image unchanged.
C15_CornerIndependence ==
    /\ (pc = "done" /\ op = "apply_corner_radius" /\ \A k \in 1..4 : args.radii[k] <= 0) =>
          result = Return(args.image)
    /\ MaskMade =>
          /\ \A x \in 1..MaskWidth, y \in 1..MaskHeight :
                (\A k \in 1..4 : ~(args.radii[k] > 0 /\ InCornerBox(k, x, y))) =>
                    MaskAt(x, y) = Opaque
          /\ \A k \in 1..4 :
                (/\ args.radii[k] <= 0
                 /\ MaskWidth > 0 /\ MaskHeight > 0
                 /\ \A j \in 1..4 : ~(args.radii[j] > 0
                                        /\ InCornerBox(j, CornerPixel(k)[1], CornerPixel(k)[2])))
                => MaskAt(CornerPixel(k)[1], CornerPixel(k)[2]) = Opaque

\* one corner is cut while the corner across the image, with a radius below
\* 0, stays opaque
C15_Witness ==
    /\ MaskMade /\ op = "apply_corner_radius"
    /\ args.radii[1] > 0 /\ args.radii[3] < 0
    /\ MaskAt(1, 1) < Opaque
    /\ MaskAt(MaskWidth, MaskHeight) = Opaque

\* the pixel i steps from corner k along the horizontal edge (dx), the vertical
\* edge (dy) or the diagonal (both)
Inward(k, i, dx, dy) ==
    LET c == CornerPixel(k)
        sx == IF k \in {1, 4} THEN 1 ELSE -1
        sy == IF k \in {1, 2} THEN 1 ELSE -1
    IN  <<c[1] + sx * i * dx, c[2] + sy * i * dy>>

InMask(p) == p[1] \in 1..MaskWidth /\ p[2] \in 1..MaskHeight

\* nearer to 0 than to 255
NearZero(v) == 2 * v < Opaque

\* nearer to 255 than to 0
NearOpaque(v) == 2 * v > Opaque

\* C16: for a corner of radius r > 0 the mask is near 0 at the corner pixel
\* and near 255 r pixels inward along either axis, it never decreases from
\* the corner pixel inward along the diagonal or an edge, and every value
\* lies in 0..255.
C16_SquircleValues ==
    MaskMade =>
        /\ \A x \in 1..MaskWidth, y \in 1..MaskHeight : MaskAt(x, y) \in 0..Opaque
        /\ \A k \in 1..4 :
              LET r == args.radii[k]
                  At(p) == MaskAt(p[1], p[2])
              IN  r > 0 =>
                    /\ NearZero(At(CornerPixel(k)))
                    /\ \A d \in {<<1, 0>>, <<0, 1>>} :
                          InMask(Inward(k, r, d[1], d[2])) =>
                              NearOpaque(At(Inward(k, r, d[1], d[2])))
                    /\ \A d \in {<<1, 0>>, <<0, 1>>, <<1, 1>>} :
                       \A i \in 0..(r - 1) :
                          InMask(Inward(k, i + 1, d[1], d[2])) =>
                              At(Inward(k, i, d[1], d[2])) <= At(Inward(k, i + 1, d[1], d[2]))

----------------------------------------------------------------------------
(* Colour calls *)

\* two-character groups: hexadecimal in either case, a letter that is no
\* digit, a sign and a blank
ColorPairs == {<<"0", "0">>, <<"f", "F">>, <<"1", "A">>, <<"G", "0">>, <<"-", "F">>, <<" ", "1">>}

\* the strings of k groups
RECURSIVE PairStrings(_)
PairStrings(k) ==
    IF k = 0 THEN {<<>>}
    ELSE {p \o t : p \in ColorPairs, t \in PairStrings(k - 1)}

\* colour strings: an optional "#", up to MaxColorPairs groups and an optional
\* odd character
ColorInputs ==
    {h \o t \o c : h \in {<<>>, <<"#">>},
                   t \in UNION {PairStrings(k) : k \in 0..MaxColorPairs},
                   c \in {<<>>, <<"8">>}}

InitColor == \E color \in ColorInputs : Call("parse_color", [color |-> color])

ParseColor ==
    /\ pc = "call" /\ op = "parse_color"
    /\ Finish(parse_color(args.color))

NextColor == ParseColor

\* the colours of a configuration
SpecColor == InitColor /\ [][NextColor]_vars

----------------------------------------------------------------------------
(* What the specification says of colours, stated on its own terms *)

\* the colour string without one leading "#"
Stripped ==
    IF Len(args.color) > 0 /\ args.color[1] = "#" THEN Tail(args.color) ELSE args.color

AllHex(c) == \A i \in 1..Len(c) : IsHexDigit(c[i])

\* the value of the i-th pair of hexadecimal digits
Channel(c, i) == 16 * HexDigitValue(c[2 * i - 1]) + HexDigitValue(c[2 * i])

\* C17: parse_color never raises: without one leading "#", 6 hex digits give
\* (R, G, B, 255), 8 hex digits give (R, G, B, A), and every other string,
\* of another length, empty, or of 6 or 8 characters with one that is no hex
\* digit, gives opaque black (0, 0, 0, 255).
C17_ParseColorTotal ==
    (pc = "done" /\ op = "parse_color") =>
        LET c == Stripped
        IN  /\ result.kind = "return"
            /\ result.val =
                  IF Len(c) = 6 /\ AllHex(c)
                  THEN <<Channel(c, 1), Channel(c, 2), Channel(c, 3), Opaque>>
                  ELSE IF Len(c) = 8 /\ AllHex(c)
                  THEN <<Channel(c, 1), Channel(c, 2), Channel(c, 3), Channel(c, 4)>>
                  ELSE <<0, 0, 0, Opaque>>

----------------------------------------------------------------------------
(* Text renderer calls *)

\* what draw.textbbox measures: (left, top, right, bottom)
BBoxInputs == {<<0, 0, 0, 0>>, <<0, 1, 4, 4>>, <<1, 2, 8, 7>>, <<0, 3, 11, 5>>}

\* canvas widths, narrower and wider than the texts
TextWidths == {0, 7, 10}

PositionInputs ==
    {TextPosition(0, 0, w, 0, t, m, s, i) :
        w \in TextWidths, t \in 0..MaxTextArea, m \in BOOLEAN, s \in BOOLEAN, i \in BOOLEAN}

\* positions as _render_texts builds them: a sub text only next to a main text
RenderPositions ==
    {p \in PositionInputs :
        /\ p.width = 10
        /\ p.text_area_height \in {0, MaxTextArea}
        /\ p.is_main \/ p.has_sub_text}

OffsetInputs == {<<0, 0>>, <<0, 50>>, <<-3, 2>>}

\* styles that differ in the fields render_text reads
RenderStyles ==
    {TextStyle([color |-> c, shadow |-> sh, shadow_color |-> sc, shadow_offset |-> so]) :
        c \in {"#FFFFFF", "#1A1A1A", "", "#GGGGGG"}, sh \in BOOLEAN,
        sc \in {"#000000", "#00000080", "#GGGGGG"}, so \in {<<2, 2>>, <<0, 0>>, <<4, 4>>}}

InitText ==
    \/ \E b \in BBoxInputs, p \in PositionInputs, o \in OffsetInputs :
          Call("_calculate_text_position",
               [bbox |-> b, position |-> p, style |-> TextStyle([offset |-> o])])
    \/ \E b \in BBoxInputs, p \in RenderPositions, st \in RenderStyles :
          Call("render_text", [text |-> "Text", bbox |-> b, position |-> p, style |-> st])

CalculateTextPosition ==
    /\ pc = "call" /\ op = "_calculate_text_position"
    /\ Finish(Return(calculate_text_position(args.bbox, args.position, args.style)))

RenderText ==
    /\ pc = "call" /\ op = "render_text"
    /\ Finish(render_text(args.text, args.bbox, args.position, args.style))

NextText ==
    \/ CalculateTextPosition
    \/ RenderText

\* the text renderer
SpecText == InitText /\ [][NextText]_vars

----------------------------------------------------------------------------
(* What the specification says of text rendering, stated on its own terms *)

\* p percent of the text area height, in whole pixels
Percent(p, text_area_height) == (p * text_area_height) \div 100

C19_ShadowBeforeMain ==
    (pc = "done" /\ op = "render_text") =>
        LET st == args.style
            xy == calculate_text_position(args.bbox, args.position, st)
            main == DrawText(xy, args.text, parse_color(Characters(st.v["color"])).val)
            shadow == DrawText(<<xy[1] + st.v["shadow_offset"][1],
                                 xy[2] + st.v["shadow_offset"][2]>>, args.text,
                               parse_color(Characters(st.v["shadow_color"])).val)
        IN  IF st.v["shadow"]
            THEN /\ Len(result.draws) = 2
                 /\ parse_color(Characters(st.v["color"])).kind = "return"
                 /\ parse_color(Characters(st.v["shadow_color"])).kind = "return"
                 /\ result.draws = <<shadow, main>>
            ELSE /\ Len(result.draws) = 1
                 /\ parse_color(Characters(st.v["color"])).kind = "return"
                 /\ result.draws = <<main>>

----------------------------------------------------------------------------
(* models.py: Screenshot, LocalizedTextContent; file_manager.py: FileManager *)

\* A string with placeholders is the sequence of its pieces: literal text,
\* a placeholder such as {lang}, or a number in decimal.
Lit(s) == [kind |-> "lit", text |-> s]

Placeholder(name) == [kind |-> "placeholder", name |-> name]

Num(n) == [kind |-> "num", val |-> n]

\* f"{index:02d}"
Num02(n) == [kind |-> "num02", val |-> n]

\* an optional string that is set
Str(pieces) == [kind |-> "str", pieces |-> pieces]

\* str.replace of every placeholder that has a replacement
RECURSIVE Replace(_, _)
Replace(pieces, replacements) ==
    IF pieces = <<>> THEN <<>>
    ELSE LET piece == Head(pieces)
         IN  (IF piece.kind = "placeholder" /\ piece.name \in DOMAIN replacements
              THEN replacements[piece.name]
              ELSE <<piece>>)
             \o Replace(Tail(pieces), replacements)

\* the characters of the literal texts that paths and names hold
TextCharacters(s) ==
    CASE s = ""            -> <<>>
      [] s = "x"           -> <<"x">>
      [] s = "_"           -> <<"_">>
      [] s = "-"           -> <<"-">>
      [] s = "de"          -> <<"d", "e">>
      [] s = "en"          -> <<"e", "n">>
      [] s = "ja"          -> <<"j", "a">>
      [] s = "fr"          -> <<"f", "r">>
      [] s = ".png"        -> <<".", "p", "n", "g">>
      [] s = "home"        -> <<"h", "o", "m", "e">>
      [] s = "shots"       -> <<"s", "h", "o", "t", "s">>
      [] s = "shot"        -> <<"s", "h", "o", "t">>
      [] s = "shot.png"    -> <<"s", "h", "o", "t", ".", "p", "n", "g">>
      [] s = "shot.PNG"    -> <<"s", "h", "o", "t", ".", "P", "N", "G">>
      [] s = "detail"      -> <<"d", "e", "t", "a", "i", "l">>
      [] s = "detail_"     -> <<"d", "e", "t", "a", "i", "l", "_">>
      [] s = "_with_text_" -> <<"_", "w", "i", "t", "h", "_", "t", "e", "x", "t", "_">>
      [] s = "lang"        -> <<"l", "a", "n", "g">>
      [] s = "size"        -> <<"s", "i", "z", "e">>
      [] s = "width"       -> <<"w", "i", "d", "t", "h">>
      [] s = "height"      -> <<"h", "e", "i", "g", "h", "t">>

\* str(n) of a natural number
RECURSIVE Digits(_)
Digits(n) ==
    LET digit == <<"0", "1", "2", "3", "4", "5", "6", "7", "8", "9">>[(n % 10) + 1]
    IN  IF n < 10 THEN <<digit>> ELSE Append(Digits(n \div 10), digit)

\* f"{n:02d}" of a natural number: at least two digits
Digits02(n) == IF n < 10 THEN <<"0">> \o Digits(n) ELSE Digits(n)

\* the characters of one piece; a placeholder nothing replaced stays as
\* written
PieceCharacters(piece) ==
    CASE piece.kind = "lit"         -> TextCharacters(piece.text)
      [] piece.kind = "placeholder" -> <<"{">> \o TextCharacters(piece.name) \o <<"}">>
      [] piece.kind = "num"         -> Digits(piece.val)
      [] piece.kind = "num02"       -> Digits02(piece.val)

\* the characters of a string given by its pieces
RECURSIVE Render(_)
Render(pieces) ==
    IF pieces = <<>> THEN <<>>
    ELSE PieceCharacters(Head(pieces)) \o Render(Tail(pieces))

\* str.endswith
EndsWith(chars, suffix) ==
    /\ Len(chars) >= Len(suffix)
    /\ SubSeq(chars, Len(chars) - Len(suffix) + 1, Len(chars)) = suffix

\* f"{width}x{height}"
ResolutionStr(width, height) == <<Num(width), Lit("x"), Num(height)>>

\* the replacements for a size: {size}, {width} and {height}
SizeReplacements(width, height) ==
    [size |-> ResolutionStr(width, height), width |-> <<Num(width)>>,
     height |-> <<Num(height)>>]

\* a path to an image: its directory, the stem of its name and the suffix
ImagePath(dir, stem, suffix) == [dir |-> dir, stem |-> stem, suffix |-> suffix]

\* LocalizedTextContent(main_text=..., sub_text=...): texts by language
LocalizedTextContent(main_text, sub_text) == [main_text |-> main_text, sub_text |-> sub_text]

\* a Screenshot with the fields generation reads besides its styles
ScreenshotEntry(input_image, text, output_name, theme) ==
    Screenshot(theme, None, None)
    @@ [input_image |-> input_image, text |-> text, output_name |-> output_name]

\* get_text_for_language that falls back to the English text
get_text_for_language_fallback(self, language) ==
    LET lang == IF language \in DOMAIN self.text.main_text THEN language ELSE "en"
    IN  IF lang \notin DOMAIN self.text.main_text THEN Raise("ValueError")
        ELSE Return(<<self.text.main_text[lang],
                      IF self.text.sub_text.kind = "dict"
                         /\ self.text.sub_text.map # <<>>
                         /\ lang \in DOMAIN self.text.sub_text.map
                      THEN self.text.sub_text.map[lang]
                      ELSE NoneStr>>)

\* Screenshot.get_text_for_language: (main_text, sub_text)
get_text_for_language(self, language) ==
    IF language \notin DOMAIN self.text.main_text THEN Raise("ValueError")
    ELSE Return(<<self.text.main_text[language],
                  IF self.text.sub_text.kind = "dict"
                     /\ self.text.sub_text.map # <<>>
                     /\ language \in DOMAIN self.text.sub_text.map
                  THEN self.text.sub_text.map[language]
                  ELSE NoneStr>>)

\* Screenshot.format_input_image; size is None or IntList(<<width, height>>)
format_input_image(self, language, size) ==
    LET replacements ==
            [lang |-> <<Lit(language)>>]
            @@ (IF size.kind # "None" THEN SizeReplacements(size.val[1], size.val[2])
                ELSE <<>>)
    IN  ImagePath(Replace(self.input_image.dir, replacements),
                  Replace(self.input_image.stem, replacements),
                  self.input_image.suffix)

\* _process_output_name that always appends the extension
process_output_name_always_png(output_name, language, width, height) ==
    Replace(output_name, [lang |-> <<Lit(language)>>] @@ SizeReplacements(width, height))
    \o <<Lit(".png")>>

\* FileManager._process_output_name
process_output_name(output_name, language, width, height) ==
    LET processed == Replace(output_name,
                             [lang |-> <<Lit(language)>>] @@ SizeReplacements(width, height))
    IN  IF EndsWith(Render(processed), TextCharacters(".png"))
        THEN processed
        ELSE processed \o <<Lit(".png")>>

\* _generate_default_filename that leaves the index prefix out
generate_default_filename_no_index(input_path, resolution_str, index) ==
    input_path.stem \o <<Lit("_with_text_")>> \o resolution_str \o <<Lit(".png")>>

\* FileManager._generate_default_filename
generate_default_filename(input_path, resolution_str, index) ==
    (IF TruthyInt(index) THEN <<Num02(index.val), Lit("_")>> ELSE <<>>)
    \o input_path.stem \o <<Lit("_with_text_")>> \o resolution_str \o <<Lit(".png")>>

\* FileManager.create_output_path: base_output_dir / language / resolution /
\* filename
create_output_path(language, resolution_width, resolution_height, screenshot, index) ==
    LET resolution_str == ResolutionStr(resolution_width, resolution_height)
        output_filename ==
            IF screenshot.output_name.kind = "str" /\ screenshot.output_name.pieces # <<>>
            THEN process_output_name(screenshot.output_name.pieces, language,
                                     resolution_width, resolution_height)
            ELSE generate_default_filename(screenshot.input_image, resolution_str, index)
    IN  [language |-> language, resolution |-> resolution_str, filename |-> output_filename]

\* FileManager.check_input_exists; files are the input images on disk
check_input_exists(self, path) == path \in self.files

\* ImageProcessor.load_image: the image the file holds
load_image(self, path) == Image(self.image_size[1], self.image_size[2])

\* ImageProcessor.create_canvas: Image.new refuses a negative size
create_canvas(width, height, background_color) ==
    IF width < 0 \/ height < 0 THEN Raise("ValueError")
    ELSE Return([size |-> <<width, height>>, background |-> background_color,
                 pasted |-> <<>>, texts |-> <<>>])

\* ImageProcessor.compose_images: the screenshot pasted at (x, y)
compose_images(canvas, screenshot, x, y) ==
    [canvas EXCEPT !.pasted = Append(@, [image |-> screenshot, at |-> <<x, y>>])]

----------------------------------------------------------------------------
(* config_manager.py: ConfigManager.get_languages_to_generate *)

\* the order of str for the language codes
LanguageOrder == <<"de", "en", "ja">>

\* sorted(all_languages)
Sorted(S) == SelectSeq(LanguageOrder, LAMBDA l : l \in S)

\* the configuration with the fields generation reads besides its themes
GeneratorConfig(data, languages, output_sizes, screenshots) ==
    ScreenshotConfig(data)
    @@ [languages |-> languages, output_sizes |-> output_sizes, screenshots |-> screenshots]

\* get_languages_to_generate that lets the configured list win over the
\* language asked for
get_languages_to_generate_configured_first(config, specific_language) ==
    IF config.languages.kind = "list" /\ config.languages.val # <<>>
    THEN Return(config.languages.val)
    ELSE IF TruthyStr(specific_language) THEN Return(<<specific_language>>)
    ELSE LET all_languages ==
                 UNION {DOMAIN config.screenshots[i].text.main_text :
                            i \in 1..Len(config.screenshots)}
         IN  IF all_languages # {} THEN Return(Sorted(all_languages))
             ELSE Raise("ValueError")

\* ConfigManager.get_languages_to_generate; languages is None or a list
get_languages_to_generate(config, specific_language) ==
    IF TruthyStr(specific_language) THEN Return(<<specific_language>>)
    ELSE IF config.languages.kind = "list" /\ config.languages.val # <<>>
    THEN Return(config.languages.val)
    ELSE LET all_languages ==
                 UNION {DOMAIN config.screenshots[i].text.main_text :
                            i \in 1..Len(config.screenshots)}
         IN  IF all_languages # {} THEN Return(Sorted(all_languages))
             ELSE Raise("ValueError")

----------------------------------------------------------------------------
(* generator.py: ScreenshotGenerator *)

\* The generator self holds the configuration, the input images on disk
\* (files) and the size of the image each of them holds (image_size).

\* what a call saved, in order, and how it ended
Saved(saved, outcome) == [kind |-> outcome.kind, saved |-> saved, outcome |-> outcome]

\* draw.textbbox((0, 0), text, font): the box of the glyphs, which grows with
\* the font size
textbbox(text, style) ==
    IF text = "" THEN <<0, 0, 0, 0>>
    ELSE <<0, 1, 4, 1 + style.v["font_size"] \div 32>>

\* one rendering after another: the draw.text calls of both, the second's end
DrawnThen(main, sub) == Drawn(main.draws \o sub.draws, sub.outcome)

\* _render_texts once the main text is rendered: the sub text if present
RenderSubText(sub_text, canvas_width, text_area_height, is_inverted, sub_style, main) ==
    IF main.kind = "raise" \/ ~TruthyStr(sub_text) THEN main
    ELSE DrawnThen(main,
                   render_text(sub_text, textbbox(sub_text, sub_style.val),
                               TextPosition(0, 0, canvas_width, 0, text_area_height,
                                            FALSE, TRUE, is_inverted),
                               sub_style.val))

\* _render_texts with the layout and the styles the configuration gives
RenderStyledTexts(main_text, sub_text, canvas_width, text_area_height, text_layout, main_style, sub_style) ==
    IF text_layout.kind = "raise" THEN Drawn(<<>>, text_layout)
    ELSE IF main_style.kind = "raise" THEN Drawn(<<>>, main_style)
    ELSE IF sub_style.kind = "raise" THEN Drawn(<<>>, sub_style)
    ELSE
    LET is_inverted == text_layout.val = "inverted"
        has_sub_text == TruthyStr(sub_text)
        main_position == TextPosition(0, 0, canvas_width, 0, text_area_height,
                                      TRUE, has_sub_text, is_inverted)
    IN  RenderSubText(sub_text, canvas_width, text_area_height, is_inverted, sub_style,
                      render_text(main_text, textbbox(main_text, main_style.val),
                                  main_position, main_style.val))

\* ScreenshotGenerator._render_texts: the draw.text calls, and how it ends
render_texts(self, screenshot, main_text, sub_text, canvas_width, text_area_height, language) ==
    RenderStyledTexts(main_text, sub_text, canvas_width, text_area_height,
                      get_text_layout(self.config, screenshot),
                      get_main_text_style(self.config, screenshot, language),
                      IF TruthyStr(sub_text)
                      THEN get_sub_text_style(self.config, screenshot, language)
                      ELSE Return(None))

\* the end of _generate_single_size: the canvas with its texts saved at
\* output_path
SaveSingleSize(canvas, texts, output_path) ==
    IF texts.kind = "raise" THEN Saved(<<>>, texts.outcome)
    ELSE Saved(<<[path  |-> output_path,
                  image |-> [canvas EXCEPT !.texts = texts.draws]]>>,
               Return(output_path))

\* _generate_single_size once the screenshot is resized and rounded and the
\* background colour parsed: canvas, composition, texts and saving
ComposeSingleSize(self, screenshot, main_text, sub_text, canvas_width, canvas_height, index, language, text_area_height, dims, rounded, background_color_parsed) ==
    IF rounded.kind = "raise" THEN Saved(<<>>, rounded)
    ELSE IF background_color_parsed.kind = "raise"
    THEN Saved(<<>>, background_color_parsed)
    ELSE
    LET blank == create_canvas(canvas_width, canvas_height, background_color_parsed.val)
    IN  IF blank.kind = "raise" THEN Saved(<<>>, blank)
        ELSE SaveSingleSize(compose_images(blank.val, rounded.val, dims[3], dims[4]),
                            render_texts(self, screenshot, main_text, sub_text,
                                         canvas_width, text_area_height, language),
                            create_output_path(language, canvas_width, canvas_height,
                                               screenshot, index))

\* _generate_single_size once the placement dims is worked out: resizing,
\* corner radius and background colour
ResizeSingleSize(self, screenshot, original, main_text, sub_text, canvas_width, canvas_height, index, language, order, text_area_height, background_color, image_style, dims) ==
    IF dims.kind = "raise" THEN Saved(<<>>, dims)
    ELSE
    LET resized == resize_image(original, dims.val[1], dims.val[2])
        radii   == get_corner_radius_values(image_style)
    IN  IF resized.kind = "raise" THEN Saved(<<>>, resized)
        ELSE ComposeSingleSize(self, screenshot, main_text, sub_text, canvas_width,
                               canvas_height, index, language, text_area_height, dims.val,
                               IF \E k \in 1..4 : radii[k] > 0
                               THEN apply_corner_radius(resized.val, radii, order)
                               ELSE resized,
                               parse_color(Characters(background_color)))

\* _generate_single_size with the style the configuration gives: padding and
\* placement
PlaceSingleSize(self, screenshot, original, main_text, sub_text, canvas_width, canvas_height, index, language, order, text_area_height, background_color, image_style) ==
    IF text_area_height.kind = "raise" THEN Saved(<<>>, text_area_height)
    ELSE
    LET padding == get_padding_values(image_style.val)
    IN  ResizeSingleSize(self, screenshot, original, main_text, sub_text, canvas_width,
                         canvas_height, index, language, order, text_area_height.val,
                         background_color.val, image_style.val,
                         calculate_screenshot_dimensions(
                             canvas_width, canvas_height, text_area_height.val,
                             padding[1], padding[2], padding[3], padding[4],
                             original.size[1], original.size[2]))

\* ScreenshotGenerator._generate_single_size: the image it saves and the path
\* it returns
generate_single_size(self, screenshot, original, main_text, sub_text, canvas_width, canvas_height, index, language, order) ==
    PlaceSingleSize(self, screenshot, original, main_text, sub_text, canvas_width,
                    canvas_height, index, language, order,
                    get_text_area_height(self.config, screenshot),
                    get_background_color(self.config, screenshot),
                    get_image_style(self.config, screenshot))

\* one part of a run after another: what both saved, and the paths of both
\* unless the second failed
SavedThen(first, rest) ==
    IF rest.kind = "raise" THEN Saved(first.saved \o rest.saved, rest.outcome)
    ELSE Saved(first.saved \o rest.saved,
               Return(first.outcome.val \o rest.outcome.val))

RECURSIVE GenerateSizes(_, _, _, _, _, _, _)

\* generate_screenshot once the k-th size is generated: generated_paths.append
\* and the sizes after it
AppendGeneratedPath(self, screenshot, texts, index, language, order, k, generated_path) ==
    IF generated_path.kind = "raise" THEN generated_path
    ELSE SavedThen(Saved(generated_path.saved, Return(<<generated_path.outcome.val>>)),
                   GenerateSizes(self, screenshot, texts, index, language, order, k + 1))

\* the loop of generate_screenshot over config.output_sizes, from the k-th size
GenerateSizes(self, screenshot, texts, index, language, order, k) ==
    IF k > Len(self.config.output_sizes) THEN Saved(<<>>, Return(<<>>))
    ELSE
    LET size == self.config.output_sizes[k]
        input_image_path == format_input_image(screenshot, language, IntList(size))
    IN  IF ~check_input_exists(self, input_image_path)
        THEN Saved(<<>>, Raise("FileNotFoundError"))
        ELSE AppendGeneratedPath(self, screenshot, texts, index, language, order, k,
                 generate_single_size(self, screenshot, load_image(self, input_image_path),
                                      texts[1], texts[2], size[1], size[2], index,
                                      language, order))

\* ScreenshotGenerator.generate_screenshot: generated_paths
generate_screenshot(self, screenshot, index, language, order) ==
    LET texts == get_text_for_language(screenshot, language)
    IN  IF texts.kind = "raise" THEN Saved(<<>>, texts)
        ELSE GenerateSizes(self, screenshot, texts.val, index, language, order, 1)

RECURSIVE GenerateFrom(_, _, _, _, _)

\* generate_all once the i-th screenshot of the l-th language is generated:
\* generated_files.extend and the screenshots after it
ExtendGeneratedFiles(self, languages, order, l, i, output_paths) ==
    IF output_paths.kind = "raise" THEN output_paths
    ELSE SavedThen(output_paths, GenerateFrom(self, languages, order, l, i + 1))

\* the loops of generate_all, from the i-th screenshot of the l-th language
GenerateFrom(self, languages, order, l, i) ==
    IF l > Len(languages) THEN Saved(<<>>, Return(<<>>))
    ELSE IF i > Len(self.config.screenshots) THEN GenerateFrom(self, languages, order, l + 1, 1)
    ELSE ExtendGeneratedFiles(self, languages, order, l, i,
             generate_screenshot(self, self.config.screenshots[i], IntVal(i),
                                 languages[l], order))

\* generate_all that generates every language whatever language is asked for
generate_all_every_language(self, language, order) ==
    LET languages == get_languages_to_generate(self.config, NoneStr)
    IN  IF languages.kind = "raise" THEN Saved(<<>>, languages)
        ELSE GenerateFrom(self, languages.val, order, 1, 1)

\* ScreenshotGenerator.generate_all: generated_files
generate_all(self, language, order) ==
    LET languages == get_languages_to_generate(self.config, language)
    IN  IF languages.kind = "raise" THEN Saved(<<>>, languages)
        ELSE GenerateFrom(self, languages.val, order, 1, 1)

----------------------------------------------------------------------------
(* Generator calls *)

\* output sizes, small enough for the masks of the scaled screenshots
SizeInputs == {<<8, 8>>, <<6, 10>>}

\* image styles: none, a radius and a padding of 1, a padding that takes the
\* whole width of an 8 pixel canvas, and a radius larger than the canvas
ImageStyleInputs ==
    {None, ImageStyle(IntVal(1), IntVal(1)), ImageStyle(IntVal(0), IntList(<<0, 4>>)),
     ImageStyle(IntVal(9), IntVal(0))}

\* themes whose text area leaves room on the canvas (2), takes all of an 8
\* pixel canvas (8) or is the default of 400 pixels
SingleSizeThemes ==
    {Theme(h, b, i, None, None) :
        h \in {None, IntVal(2), IntVal(8)}, b \in {NoneStr, "#FFFFFF", "#GGGGGG"},
        i \in ImageStyleInputs}

HomePath == ImagePath(<<Lit("shots")>>, <<Lit("home")>>, ".png")

DetailPath ==
    ImagePath(<<Lit("shots"), Placeholder("lang"), Placeholder("size")>>, <<Lit("detail")>>,
              ".png")

MainTexts == ("en" :> "Main") @@ ("ja" :> "Main ja")

\* screenshots: texts for both languages or for one, with and without sub
\* text, output name and theme of their own
ScreenshotInputs ==
    {ScreenshotEntry(HomePath, LocalizedTextContent(MainTexts, None), None, NoneStr),
     ScreenshotEntry(DetailPath, LocalizedTextContent(MainTexts, Dict("en" :> "Sub")),
                     Str(<<Lit("detail_"), Placeholder("lang")>>), "standard_inverted"),
     ScreenshotEntry(HomePath, LocalizedTextContent("en" :> "Main", None), Str(<<>>), NoneStr)}

\* the lists of at most n screenshots
RECURSIVE ScreenshotLists(_)
ScreenshotLists(n) ==
    IF n = 0 THEN {<<>>}
    ELSE ScreenshotLists(n - 1)
         \cup {Append(l, x) : l \in {m \in ScreenshotLists(n - 1) : Len(m) = n - 1},
                              x \in ScreenshotInputs}

\* every input image a run may ask for
AllFiles ==
    {format_input_image(x, l, IntList(z)) :
        x \in ScreenshotInputs, l \in {"de", "en", "ja"}, z \in SizeInputs}

\* the disk holds every input image, or none that is specific to "ja"
FileInputs == {AllFiles, {f \in AllFiles : \A i \in 1..Len(f.dir) : f.dir[i] # Lit("ja")}}

\* a generator over the configuration
Generator(config, files, image_size) ==
    [config |-> config, files |-> files, image_size |-> image_size]

InitGenerator ==
    \/ \E t \in SingleSizeThemes, x \in ScreenshotInputs, name \in {NoneStr, "custom"},
          z \in SizeInputs, o \in {<<4, 6>>, <<3, 3>>}, sub \in {NoneStr, "", "Sub"} :
          Call("_generate_single_size",
               [self |-> Generator(GeneratorConfig(ConfigData("<unset>", "<unset>",
                                                              "standard" :> t),
                                                   None, <<z>>, <<x>>),
                                   AllFiles, o),
                screenshot |-> [x EXCEPT !.theme = name], original |-> Image(o[1], o[2]),
                main_text |-> "Main", sub_text |-> sub,
                canvas_width |-> z[1], canvas_height |-> z[2],
                index |-> IntVal(1), language |-> "en"])
    \/ \E b \in {"#FFFFFF", "#GGGGGG"},
          languages \in {None, IntList(<<>>), IntList(<<"en">>), IntList(<<"ja", "en">>)},
          sizes \in {<<>>, <<<<8, 8>>>>, <<<<8, 8>>, <<6, 10>>>>},
          screenshots \in ScreenshotLists(MaxScreenshots), files \in FileInputs,
          language \in {NoneStr, "", "ja", "de"} :
          Call("generate_all",
               [self |-> Generator(GeneratorConfig(
                                       ConfigData("<unset>", "<unset>",
                                                  [name \in DOMAIN THEMES |->
                                                      Theme(IntVal(2), b, None, None, None)]),
                                       languages, sizes, screenshots),
                                   files, <<4, 6>>),
                language |-> language])

GenerateSingleSize ==
    /\ pc = "call" /\ op = "_generate_single_size"
    /\ \E order \in WriteOrders :
          Finish(generate_single_size(args.self, args.screenshot, args.original,
                                      args.main_text, args.sub_text, args.canvas_width,
                                      args.canvas_height, args.index, args.language, order))

GenerateAll ==
    /\ pc = "call" /\ op = "generate_all"
    /\ \E order \in WriteOrders : Finish(generate_all(args.self, args.language, order))

NextGenerator ==
    \/ GenerateSingleSize
    \/ GenerateAll

\* the screenshot generator
SpecGenerator == InitGenerator /\ [][NextGenerator]_vars

----------------------------------------------------------------------------
(* What the specification says of generation, stated on its own terms *)

\* the region the padding and the text area leave on the canvas of a
\* single-size call: (width, height)
SingleSizeRegion ==
    LET text_area_height == get_text_area_height(args.self.config, args.screenshot).val
        padding == get_padding_values(get_image_style(args.self.config, args.screenshot).val)
    IN  <<args.canvas_width - padding[4] - padding[2],
          args.canvas_height - text_area_height - padding[1] - padding[3]>>

\* a single-size call whose region has no area
ZeroAreaCall ==
    /\ pc = "done" /\ op = "_generate_single_size"
    /\ is_valid_theme(ThemeName(args.self.config, args.screenshot))
    /\ SingleSizeRegion[1] >= 0 /\ SingleSizeRegion[2] >= 0
    /\ SingleSizeRegion[1] = 0 \/ SingleSizeRegion[2] = 0

\* C13: when padding and text area leave a region of width or height 0,
\* placement yields a scaled size of (0, 0) and the single-size generation
\* that consumes it completes instead of raising.
C13_DegenerateGeometry ==
    ZeroAreaCall =>
        LET padding == get_padding_values(get_image_style(args.self.config,
                                                          args.screenshot).val)
            dims == calculate_screenshot_dimensions(
                        args.canvas_width, args.canvas_height,
                        get_text_area_height(args.self.config, args.screenshot).val,
                        padding[1], padding[2], padding[3], padding[4],
                        args.original.size[1], args.original.size[2])
        IN  /\ dims.kind = "return"
            /\ dims.val[1] = 0 /\ dims.val[2] = 0
            /\ result.kind = "return"

\* the languages a run generates
RunLanguages ==
    LET config == args.self.config
    IN  IF TruthyStr(args.language) THEN <<args.language>>
        ELSE IF config.languages.kind = "list" /\ config.languages.val # <<>>
        THEN config.languages.val
        ELSE Sorted(UNION {DOMAIN config.screenshots[i].text.main_text :
                               i \in 1..Len(config.screenshots)})

\* a generate_all run that met no error
RunCompleted == pc = "done" /\ op = "generate_all" /\ result.kind = "return"

\* C20: a generate_all run that meets no error saves one image per
\* (language, screenshot, output size) and returns |languages| x
\* |screenshots| x |output sizes| paths, languages first, then screenshots,
\* then sizes, each image of the requested size; with a specific language
\* asked for only that language is generated.
C20_OnePathPerCombination ==
    RunCompleted =>
        LET L == RunLanguages
            S == args.self.config.screenshots
            Z == args.self.config.output_sizes
            n == Len(L) * Len(S) * Len(Z)
            paths == result.outcome.val
            l(j) == (j - 1) \div (Len(S) * Len(Z)) + 1
            i(j) == (((j - 1) \div Len(Z)) % Len(S)) + 1
            z(j) == ((j - 1) % Len(Z)) + 1
        IN  /\ Len(paths) = n
            /\ Len(result.saved) = n
            /\ \A j \in 1..n :
                  /\ paths[j] = create_output_path(L[l(j)], Z[z(j)][1], Z[z(j)][2], S[i(j)],
                                                   IntVal(i(j)))
                  /\ result.saved[j].path = paths[j]
                  /\ result.saved[j].image.size = Z[z(j)]
            /\ TruthyStr(args.language) =>
                  \A j \in 1..Len(paths) : paths[j].language = args.language

\* a run over two languages, two different screenshots and two sizes returned
C20_Witness ==
    /\ RunCompleted
    /\ ~TruthyStr(args.language)
    /\ Len(RunLanguages) = 2
    /\ Len(args.self.config.screenshots) = 2
    /\ Len(args.self.config.output_sizes) = 2
    /\ Len(result.outcome.val) = 8
    /\ args.self.config.screenshots[1] # args.self.config.screenshots[2]

----------------------------------------------------------------------------
(* Language selection calls *)

\* main-text maps over every set of languages, the empty one included
MainTextInputs == {[l \in S |-> "Main"] : S \in SUBSET {"de", "en", "ja"}}

\* the lists of at most MaxScreenshots screenshots over these maps
LanguageScreenshots ==
    UNION {[1..n -> {ScreenshotEntry(HomePath, LocalizedTextContent(m, None), None, NoneStr) :
                        m \in MainTextInputs}] : n \in 0..MaxScreenshots}

\* config.languages: absent, empty, or a list in an order of its own
ConfiguredLanguages ==
    {None, IntList(<<>>), IntList(<<"ja">>), IntList(<<"ja", "en">>), IntList(<<"en", "fr">>)}

InitLanguages ==
    \E languages \in ConfiguredLanguages, screenshots \in LanguageScreenshots,
       specific_language \in {NoneStr, "", "ja", "fr"} :
       Call("get_languages_to_generate",
            [config |-> GeneratorConfig(ConfigData("<unset>", "<unset>", <<>>), languages,
                                        <<>>, screenshots),
             specific_language |-> specific_language])

GetLanguagesToGenerate ==
    /\ pc = "call" /\ op = "get_languages_to_generate"
    /\ Finish(get_languages_to_generate(args.config, args.specific_language))

NextLanguages == GetLanguagesToGenerate

\* the choice of the languages of a run
SpecLanguages == InitLanguages /\ [][NextLanguages]_vars

----------------------------------------------------------------------------
(* What the specification says of the languages of a run *)

\* the languages that are a main-text key of some screenshot
MainTextLanguages ==
    UNION {DOMAIN args.config.screenshots[i].text.main_text :
               i \in 1..Len(args.config.screenshots)}

\* where a language code stands in the order of strings
Rank(l) == CHOOSE k \in 1..Len(LanguageOrder) : LanguageOrder[k] = l

\* a list holds the languages of S once each, in increasing order
SortedListOf(list, S) ==
    /\ Len(list) = Cardinality(S)
    /\ {list[k] : k \in 1..Len(list)} = S
    /\ \A j, k \in 1..Len(list) : j < k => Rank(list[j]) < Rank(list[k])

\* C28: get_languages_to_generate returns [L] when a language L is asked
\* for, configured or not; otherwise the configured list in its order when
\* it is not empty; otherwise the sorted main-text languages of all
\* screenshots; and raises when there are none.
C28_LanguagesToGenerate ==
    (pc = "done" /\ op = "get_languages_to_generate") =>
        IF TruthyStr(args.specific_language)
        THEN result = Return(<<args.specific_language>>)
        ELSE IF args.config.languages.kind = "list" /\ args.config.languages.val # <<>>
        THEN result = Return(args.config.languages.val)
        ELSE IF MainTextLanguages = {} THEN result = Raise("ValueError")
        ELSE result.kind = "return" /\ SortedListOf(result.val, MainTextLanguages)

\* with no language asked for and none configured, screenshots with texts
\* in "ja" and in "de", in that order, gave the list de, ja
C28_Witness ==
    /\ pc = "done" /\ op = "get_languages_to_generate"
    /\ ~TruthyStr(args.specific_language)
    /\ args.config.languages = None
    /\ Len(args.config.screenshots) = 2
    /\ DOMAIN args.config.screenshots[1].text.main_text = {"ja"}
    /\ DOMAIN args.config.screenshots[2].text.main_text = {"de"}
    /\ result = Return(<<"de", "ja">>)

----------------------------------------------------------------------------
(* Output path calls: FileManager.create_output_path over output names with
   and without placeholders and extension, indexes that are absent, zero,
   of one, two and three digits, and input images of two base names. *)

OutputNameInputs ==
    {None, Str(<<>>), Str(<<Lit("shot")>>), Str(<<Lit("shot.png")>>),
     Str(<<Lit("shot.PNG")>>), Str(<<Lit("detail_"), Placeholder("lang")>>),
     Str(<<Placeholder("lang"), Lit("_"), Placeholder("size"), Lit(".png")>>),
     Str(<<Placeholder("width"), Lit("-"), Placeholder("height")>>)}

IndexInputs == {None, IntVal(0), IntVal(1), IntVal(7), IntVal(12), IntVal(100)}

OutputSizeInputs == {<<8, 8>>, <<6, 10>>, <<1290, 2796>>}

InitPaths ==
    \E language \in {"en", "ja"}, z \in OutputSizeInputs, name \in OutputNameInputs,
       image \in {HomePath, DetailPath}, index \in IndexInputs :
        Call("create_output_path",
             [language |-> language, resolution_width |-> z[1], resolution_height |-> z[2],
              screenshot |-> ScreenshotEntry(image, LocalizedTextContent(MainTexts, None),
                                             name, NoneStr),
              index |-> index])

CreateOutputPath ==
    /\ pc = "call" /\ op = "create_output_path"
    /\ Finish(Return(create_output_path(args.language, args.resolution_width,
                                        args.resolution_height, args.screenshot,
                                        args.index)))

NextPaths == CreateOutputPath

SpecPaths == InitPaths /\ [][NextPaths]_vars

----------------------------------------------------------------------------
(* The output path of a screenshot *)

\* "<width>x<height>"
SizeCharacters(width, height) == Digits(width) \o <<"x">> \o Digits(height)

\* the characters of an output name with every placeholder substituted
RECURSIVE Substituted(_, _, _, _)
Substituted(pieces, language, width, height) ==
    IF pieces = <<>> THEN <<>>
    ELSE LET piece == Head(pieces)
             chars ==
                 CASE piece.kind = "lit" -> TextCharacters(piece.text)
                   [] piece.kind = "placeholder" /\ piece.name = "lang" ->
                        TextCharacters(language)
                   [] piece.kind = "placeholder" /\ piece.name = "size" ->
                        SizeCharacters(width, height)
                   [] piece.kind = "placeholder" /\ piece.name = "width" -> Digits(width)
                   [] piece.kind = "placeholder" /\ piece.name = "height" -> Digits(height)
         IN  chars \o Substituted(Tail(pieces), language, width, height)

\* the file name the path must end in
ExpectedFilename(a) ==
    LET name == a.screenshot.output_name
        size == SizeCharacters(a.resolution_width, a.resolution_height)
        png == <<".", "p", "n", "g">>
    IN  IF name.kind = "str" /\ name.pieces # <<>>
        THEN LET sub == Substituted(name.pieces, a.language, a.resolution_width,
                                    a.resolution_height)
             IN  IF EndsWith(sub, png) THEN sub ELSE sub \o png
        ELSE (IF a.index.kind = "None" \/ a.index.val = 0 THEN <<>>
              ELSE IF a.index.val < 10 THEN <<"0">> \o Digits(a.index.val) \o <<"_">>
              ELSE Digits(a.index.val) \o <<"_">>)
             \o Render(a.screenshot.input_image.stem)
             \o TextCharacters("_with_text_") \o size \o png

\* C29: create_output_path returns the path <outputRoot>/<language>/
\* <width>x<height>/<filename>; with an output name the file name is the name
\* with {lang}, {size}, {width} and {height} substituted and ".png" appended
\* unless it ends in ".png" already; without one it is
\* "<NN>_<inputBaseName>_with_text_<width>x<height>.png" with NN the index in
\* two digits, and no "<NN>_" when the index is 0 or absent.
C29_OutputPath ==
    (pc = "done" /\ op = "create_output_path") =>
        /\ result.kind = "return"
        /\ result.val.language = args.language
        /\ Render(result.val.resolution)
               = SizeCharacters(args.resolution_width, args.resolution_height)
        /\ Render(result.val.filename) = ExpectedFilename(args)
        /\ EndsWith(Render(result.val.filename), <<".", "p", "n", "g">>)

C29_Witness ==
    /\ pc = "done" /\ op = "create_output_path"
    /\ args.screenshot.output_name = Str(<<Placeholder("width"), Lit("-"), Placeholder("height")>>)
    /\ args.resolution_width = 1290 /\ args.resolution_height = 2796
    /\ args.language = "ja"
    /\ result.val.language = "ja"
    /\ Render(result.val.resolution) = <<"1", "2", "9", "0", "x", "2", "7", "9", "6">>
    /\ Render(result.val.filename)
           = <<"1", "2", "9", "0", "-", "2", "7", "9", "6", ".", "p", "n", "g">>

----------------------------------------------------------------------------
(* Output paths of one run *)

\* the characters of an output path below the output root
PathCharacters(path) ==
    <<TextCharacters(path.language), Render(path.resolution), Render(path.filename)>>

NoDuplicates(list) == \A j, k \in 1..Len(list) : list[j] = list[k] => j = k

\* no screenshot of the run sets output_name
NoOutputNames ==
    \A i \in 1..Len(args.self.config.screenshots) :
        LET name == args.self.config.screenshots[i].output_name
        IN  name.kind = "None" \/ name.pieces = <<>>

\* C30: in a generate_all run over languages and output sizes without
\* duplicates in which no screenshot sets output_name, the output paths of all
\* (language, screenshot, size) combinations are pairwise distinct, also when
\* screenshots share the base name of their input image.
C30_DistinctPaths ==
    (RunCompleted /\ NoOutputNames /\ NoDuplicates(RunLanguages)
         /\ NoDuplicates(args.self.config.output_sizes)) =>
        LET paths == result.outcome.val
        IN  /\ NoDuplicates([j \in 1..Len(paths) |-> PathCharacters(paths[j])])
            /\ NoDuplicates([j \in 1..Len(result.saved) |->
                                 PathCharacters(result.saved[j].path)])

\* a run over two languages and two sizes with the same screenshot twice
C30_Witness ==
    /\ RunCompleted /\ NoOutputNames
    /\ RunLanguages = <<"ja", "en">>
    /\ Len(args.self.config.output_sizes) = 2
    /\ Len(args.self.config.screenshots) = 2
    /\ args.self.config.screenshots[1] = args.self.config.screenshots[2]
    /\ Len(result.outcome.val) = 8
    /\ Render(result.outcome.val[1].filename) # Render(result.outcome.val[3].filename)

----------------------------------------------------------------------------
(* generator.py: generate_all and generate_screenshot step by step. frame
   holds the locals of the running calls, log what the reporter, the input
   directory and the output directory have seen, in order. *)

\* one entry of the log
Reported(event, what) == [event |-> event, what |-> what]

\* the locals of generate_all and of the generate_screenshot it is in
Locals(languages) ==
    [languages |-> languages, l |-> 1, i |-> 1, k |-> 1, texts |-> <<>>,
     original |-> None, generated_files |-> <<>>, generated_paths |-> <<>>,
     error |-> None]

\* lang, screenshot and index of the running generate_screenshot
CurrentLanguage == IF op = "generate_all" THEN frame.languages[frame.l] ELSE args.language

CurrentScreenshot ==
    IF op = "generate_all" THEN args.self.config.screenshots[frame.i] ELSE args.screenshot

CurrentIndex == IF op = "generate_all" THEN IntVal(frame.i) ELSE args.index

\* the input image of the size generate_screenshot is at
CurrentInput ==
    format_input_image(CurrentScreenshot, CurrentLanguage,
                       IntList(args.self.config.output_sizes[frame.k]))

\* generate_all, the except clause with the error reported and raised again
except_clause_next_screenshot(fr, lg, e) ==
    [pc |-> "screenshot", frame |-> [fr EXCEPT !.i = @ + 1, !.error = None],
     log |-> Append(lg, Reported("screenshot_error", e.exc)), result |-> NotReturned]

\* generate_all, the except clause: report_screenshot_error, then raise
except_clause(fr, lg, e) ==
    [pc |-> "done", frame |-> fr,
     log |-> Append(lg, Reported("screenshot_error", e.exc)), result |-> e]

\* an exception leaves generate_screenshot: into the except clause of
\* generate_all, or to the caller
Fail(fr, lg, e) ==
    /\ log' = lg
    /\ IF op = "generate_all"
       THEN pc' = "except" /\ frame' = [fr EXCEPT !.error = e] /\ result' = result
       ELSE pc' = "done" /\ frame' = fr /\ result' = e

\* generate_screenshot returns generated_paths: generate_all extends
\* generated_files and reports the success
ReturnPaths ==
    IF op = "generate_all"
    THEN /\ pc' = "screenshot"
         /\ frame' = [frame EXCEPT !.generated_files = @ \o frame.generated_paths,
                                   !.i = @ + 1]
         /\ log' = Append(log, Reported("screenshot_success", frame.generated_paths))
         /\ result' = result
    ELSE /\ pc' = "done" /\ result' = Return(frame.generated_paths)
         /\ UNCHANGED <<frame, log>>

\* generate_all up to the loop: the languages to generate
StartAll ==
    /\ pc = "call" /\ op = "generate_all"
    /\ LET languages == get_languages_to_generate(args.self.config, args.language)
       IN  IF languages.kind = "raise"
           THEN pc' = "done" /\ result' = languages /\ UNCHANGED frame
           ELSE pc' = "language" /\ frame' = Locals(languages.val) /\ UNCHANGED result
    /\ UNCHANGED <<op, args, heap, log>>

\* a call of generate_screenshot on its own
StartScreenshot ==
    /\ pc = "call" /\ op = "generate_screenshot"
    /\ pc' = "text" /\ frame' = Locals(<<args.language>>)
    /\ UNCHANGED <<op, args, heap, log, result>>

\* for lang in languages: report_language_start, or return generated_files
NextLanguage ==
    /\ pc = "language"
    /\ IF frame.l > Len(frame.languages)
       THEN pc' = "done" /\ result' = Return(frame.generated_files)
            /\ UNCHANGED <<frame, log>>
       ELSE /\ pc' = "screenshot" /\ frame' = [frame EXCEPT !.i = 1]
            /\ log' = Append(log, Reported("language_start", frame.languages[frame.l]))
            /\ UNCHANGED result
    /\ UNCHANGED <<op, args, heap>>

\* for i, screenshot in enumerate(...): report_screenshot_start
NextScreenshot ==
    /\ pc = "screenshot"
    /\ IF frame.i > Len(args.self.config.screenshots)
       THEN pc' = "language" /\ frame' = [frame EXCEPT !.l = @ + 1] /\ UNCHANGED log
       ELSE LET sizes == args.self.config.output_sizes
                first_size == IF sizes # <<>> THEN IntList(sizes[1]) ELSE None
                input_image_path ==
                    format_input_image(CurrentScreenshot, CurrentLanguage, first_size)
            IN  /\ pc' = "text" /\ UNCHANGED frame
                /\ log' = Append(log, Reported("screenshot_start",
                                               <<frame.i, Len(args.self.config.screenshots),
                                                 input_image_path.stem>>))
    /\ UNCHANGED <<op, args, heap, result>>

\* generate_screenshot: get_text_for_language
GetTexts ==
    /\ pc = "text"
    /\ LET texts == get_text_for_language(CurrentScreenshot, CurrentLanguage)
       IN  IF texts.kind = "raise" THEN Fail(frame, log, texts)
           ELSE /\ pc' = "size"
                /\ frame' = [frame EXCEPT !.texts = texts.val, !.k = 1,
                                          !.generated_paths = <<>>]
                /\ UNCHANGED <<log, result>>
    /\ UNCHANGED <<op, args, heap>>

\* for size_width, size_height in output_sizes: check_input_exists, or
\* return generated_paths
CheckInput ==
    /\ pc = "size"
    /\ IF frame.k > Len(args.self.config.output_sizes) THEN ReturnPaths
       ELSE IF ~check_input_exists(args.self, CurrentInput)
       THEN Fail(frame, Append(log, Reported("check_input", CurrentInput)),
                 Raise("FileNotFoundError"))
       ELSE /\ pc' = "load"
            /\ log' = Append(log, Reported("check_input", CurrentInput))
            /\ UNCHANGED <<frame, result>>
    /\ UNCHANGED <<op, args, heap>>

\* load_image
LoadOriginal ==
    /\ pc = "load"
    /\ pc' = "single"
    /\ frame' = [frame EXCEPT !.original = load_image(args.self, CurrentInput)]
    /\ log' = Append(log, Reported("load_image", CurrentInput))
    /\ UNCHANGED <<op, args, heap, result>>

\* the images a call saved, as entries of the log
SavedEntries(saved) == [j \in 1..Len(saved) |-> Reported("save_image", saved[j])]

\* _generate_single_size and generated_paths.append
GenerateSize ==
    /\ pc = "single"
    /\ \E order \in WriteOrders :
          LET size == args.self.config.output_sizes[frame.k]
              generated ==
                  generate_single_size(args.self, CurrentScreenshot, frame.original,
                                       frame.texts[1], frame.texts[2], size[1], size[2],
                                       CurrentIndex, CurrentLanguage, order)
          IN  IF generated.kind = "raise"
              THEN Fail(frame, log \o SavedEntries(generated.saved), generated.outcome)
              ELSE /\ pc' = "size"
                   /\ frame' = [frame EXCEPT !.generated_paths =
                                                 Append(@, generated.outcome.val),
                                             !.k = @ + 1]
                   /\ log' = log \o SavedEntries(generated.saved)
                   /\ UNCHANGED result
    /\ UNCHANGED <<op, args, heap>>

\* except Exception as e
ExceptClause ==
    /\ pc = "except"
    /\ LET after == except_clause(frame, log, frame.error)
       IN  /\ pc' = after.pc /\ frame' = after.frame
           /\ log' = after.log /\ result' = after.result
    /\ UNCHANGED <<op, args, heap>>

InitBatch ==
    \E b \in {"#FFFFFF", "#GGGGGG"},
       languages \in {None, IntList(<<>>), IntList(<<"en">>), IntList(<<"ja", "en">>)},
       sizes \in {<<>>, <<<<8, 8>>>>, <<<<8, 8>>, <<6, 10>>>>}, files \in FileInputs :
        LET self(screenshots) ==
                Generator(GeneratorConfig(
                              ConfigData("<unset>", "<unset>",
                                         [name \in DOMAIN THEMES |->
                                             Theme(IntVal(2), b, None, None, None)]),
                              languages, sizes, screenshots),
                          files, <<4, 6>>)
        IN  \/ \E screenshots \in ScreenshotLists(MaxScreenshots),
                  language \in {NoneStr, "", "ja", "de"} :
                  Call("generate_all", [self |-> self(screenshots), language |-> language])
            \/ \E screenshot \in ScreenshotInputs, language \in {"en", "ja", "de"},
                  index \in {None, IntVal(1)} :
                  Call("generate_screenshot",
                       [self |-> self(<<screenshot>>), screenshot |-> screenshot,
                        index |-> index, language |-> language])

NextBatch ==
    \/ StartAll
    \/ StartScreenshot
    \/ NextLanguage
    \/ NextScreenshot
    \/ GetTexts
    \/ CheckInput
    \/ LoadOriginal
    \/ GenerateSize
    \/ ExceptClause

\* generation step by step
SpecBatch == InitBatch /\ [][NextBatch]_vars

----------------------------------------------------------------------------
(* A batch fails fast; a missing main text fails before any file is touched *)

\* the positions of an event in the log
Events(event) == {j \in 1..Len(log) : log[j].event = event}

\* generate_all is past the call of get_languages_to_generate
InLoops == op = "generate_all" /\ DOMAIN frame # {}

\* C21: when a screenshot of a generate_all batch fails, the error is
\* reported through report_screenshot_error exactly once and raised again;
\* no further screenshot, size or language is started, no success is
\* reported for the failing screenshot, and no list is returned.
C21_FailFast ==
    op = "generate_all" =>
        /\ Cardinality(Events("screenshot_error")) <= 1
        /\ \A j \in Events("screenshot_error") :
              /\ j = Len(log)
              /\ pc = "done" /\ result = Raise(log[j].what)
              /\ \E s \in Events("screenshot_start") :
                    /\ log[s].what[1] = frame.i
                    /\ \A n \in (s + 1)..(j - 1) :
                          log[n].event \in {"check_input", "load_image", "save_image"}
        /\ (InLoops /\ pc = "done" /\ frame.error # None) =>
              /\ Cardinality(Events("screenshot_error")) = 1
              /\ result = frame.error /\ result.kind = "raise"
        /\ (InLoops /\ pc = "except") =>
              /\ Events("screenshot_error") = {}
              /\ frame.error.kind = "raise"
              /\ log[Len(log)].event # "screenshot_success"
        /\ (pc = "done" /\ result.kind = "return") =>
              /\ Events("screenshot_error") = {}
              /\ frame.error = None

\* the second screenshot of the first language failed on its input image
\* after the first was generated; the second language was never started
C21_Witness ==
    /\ op = "generate_all" /\ pc = "done"
    /\ result = Raise("FileNotFoundError")
    /\ frame.languages = <<"ja", "en">> /\ frame.l = 1 /\ frame.i = 2
    /\ Cardinality(Events("screenshot_success")) = 1
    /\ Cardinality(Events("language_start")) = 1
    /\ log[Len(log)] = Reported("screenshot_error", "FileNotFoundError")

\* the texts drawn on the images a call saved
DrawnTexts ==
    UNION {{log[j].what.image.texts[n].text : n \in 1..Len(log[j].what.image.texts)} :
               j \in Events("save_image")}

\* C22: when the screenshot has no main text for the language,
\* generate_screenshot raises before any input image is checked or loaded
\* and before any output is written, also when it has a main text for the
\* default language; a missing sub text is no error and gives no sub text.
C22_MissingMainText ==
    (op = "generate_screenshot" /\ pc = "done") =>
        LET text == args.screenshot.text
            has_sub == /\ text.sub_text.kind = "dict"
                       /\ args.language \in DOMAIN text.sub_text.map
        IN  IF args.language \notin DOMAIN text.main_text
            THEN result = Raise("ValueError") /\ log = <<>>
            ELSE /\ frame.texts[1] = text.main_text[args.language]
                 /\ ~has_sub =>
                       /\ frame.texts[2] = NoneStr
                       /\ DrawnTexts \subseteq {text.main_text[args.language]}

\* Japanese asked of a screenshot that has an English main text only
C22_Witness ==
    /\ op = "generate_screenshot" /\ pc = "done"
    /\ args.language = "ja"
    /\ DOMAIN args.screenshot.text.main_text = {"en"}
    /\ args.self.config.default_language = "en"
    /\ result = Raise("ValueError") /\ log = <<>>

----------------------------------------------------------------------------
(* validator.py: ConfigValidator. A configuration file is missing, not YAML,
   not readable as a mapping, refused by the pydantic models, or parsed to a
   configuration; disk holds the input images that exist. Messages are kept
   by their kind and what they name. *)

RECURSIVE Concat(_)
\* the lists of a list, one after another
Concat(lists) == IF lists = <<>> THEN <<>> ELSE Head(lists) \o Concat(Tail(lists))

\* ConfigValidator.__init__
ConfigValidator == [warnings |-> <<>>, errors |-> <<>>]

\* self.warnings.append and self.errors.append, for several messages
Warn(self, messages) == [self EXCEPT !.warnings = @ \o messages]

Err(self, messages) == [self EXCEPT !.errors = @ \o messages]

\* the keys of a dict of texts or themes, as a list
LanguageKeys(map) == SelectSeq(<<"de", "en", "fr", "ja">>, LAMBDA l : l \in DOMAIN map)

ThemeKeys(map) ==
    SelectSeq(<<"custom", "standard", "standard_inverted">>, LAMBDA t : t \in DOMAIN map)

\* _validate_style_format: an optional style that is set but has no property
validate_style_format(style, location) ==
    IF style.kind # "None" /\ \A g \in Fields : style.f[g] = None
    THEN <<<<"empty style", location>>>>
    ELSE <<>>

\* _validate_screenshot_config, the warnings of screenshot i: input images
\* not found, then empty styles
ScreenshotWarnings(config, disk, i) ==
    LET screenshot == config.screenshots[i]
        languages ==
            IF config.languages.kind = "list" /\ config.languages.val # <<>>
            THEN config.languages.val
            ELSE LanguageKeys(screenshot.text.main_text)
        sizes == config.output_sizes
        missing(lang, size) ==
            IF format_input_image(screenshot, lang, IntList(size)) \in disk THEN <<>>
            ELSE <<<<"input image not found", i, lang, size>>>>
    IN  Concat([l \in 1..Len(languages) |->
                   Concat([z \in 1..Len(sizes) |-> missing(languages[l], sizes[z])])])
        \o validate_style_format(screenshot.main_text_style, <<i, "main_text_style">>)
        \o validate_style_format(screenshot.sub_text_style, <<i, "sub_text_style">>)

\* _validate_screenshot_config, the errors of screenshot i: a theme that is
\* set and is no preset, and no main text
ScreenshotErrors(config, i) ==
    LET screenshot == config.screenshots[i]
    IN  (IF TruthyStr(screenshot.theme) /\ ~is_valid_theme(screenshot.theme)
         THEN <<<<"invalid theme", i, screenshot.theme>>>> ELSE <<>>)
        \o (IF DOMAIN screenshot.text.main_text = {}
            THEN <<<<"no main_text", i>>>> ELSE <<>>)

\* ConfigValidator._validate_screenshot_config
validate_screenshot_config(self, config, disk) ==
    LET n == Len(config.screenshots)
    IN  Warn(Err(self, Concat([i \in 1..n |-> ScreenshotErrors(config, i)])),
             Concat([i \in 1..n |-> ScreenshotWarnings(config, disk, i)]))

\* ConfigValidator._validate_theme_styles
validate_theme_styles(self, config) ==
    LET names == ThemeKeys(config.theme_styles)
    IN  Warn(self,
             Concat([t \in 1..Len(names) |->
                        IF is_valid_theme(names[t]) THEN <<>>
                        ELSE <<<<"no preset theme", names[t]>>>>])
             \o Concat([t \in 1..Len(names) |->
                           validate_style_format(config.theme_styles[names[t]].main_text_style,
                                                 <<names[t], "main_text_style">>)
                           \o validate_style_format(
                                  config.theme_styles[names[t]].sub_text_style,
                                  <<names[t], "sub_text_style">>)]))

\* ConfigValidator._validate_languages
validate_languages(self, config) ==
    LET used_languages ==
            UNION {DOMAIN config.screenshots[i].text.main_text :
                       i \in 1..Len(config.screenshots)}
    IN  IF config.languages.kind = "list" /\ config.languages.val # <<>>
        THEN LET configured_languages ==
                     {config.languages.val[j] : j \in 1..Len(config.languages.val)}
                 unused == configured_languages \ used_languages
                 unconfigured == used_languages \ configured_languages
             IN  Warn(self,
                      (IF unused # {} THEN <<<<"languages not used", unused>>>> ELSE <<>>)
                      \o (IF unconfigured # {}
                          THEN <<<<"languages not configured", unconfigured>>>> ELSE <<>>))
        ELSE self

\* a truthy output_name
HasOutputName(screenshot) ==
    screenshot.output_name.kind = "str" /\ screenshot.output_name.pieces # <<>>

\* ConfigValidator._validate_file_paths: output_names holds the first
\* screenshot of every name
validate_file_paths(self, config) ==
    LET S == config.screenshots
        first(i) == CHOOSE j \in 1..i :
                        /\ HasOutputName(S[j]) /\ S[j].output_name = S[i].output_name
                        /\ \A m \in 1..(j - 1) : S[m].output_name # S[i].output_name
    IN  Warn(self,
             Concat([i \in 1..Len(S) |->
                        IF HasOutputName(S[i]) /\ first(i) # i
                        THEN <<<<"duplicate output_name", i, first(i)>>>>
                        ELSE <<>>]))

\* the validator and what validate_config_file returns
Validated(self, is_valid, config) == [self |-> self, result |-> <<is_valid, config>>]

\* validate_config_file once the file is parsed: the custom validations
\* and the verdict
ValidateParsed(self, config, disk) ==
    LET checked ==
            validate_file_paths(
                validate_languages(
                    validate_theme_styles(validate_screenshot_config(self, config, disk),
                                          config),
                    config),
                config)
    IN  Validated(checked, Len(checked.errors) = 0,
                  IF Len(checked.errors) = 0 THEN config ELSE None)

\* validate_config_file that keeps the messages of the validation before
validate_config_file_keeps_messages(self, file) ==
    CASE file.kind = "missing" ->
            Validated(Err(self, <<<<"file not found">>>>), FALSE, None)
      [] file.kind = "not yaml" ->
            Validated(Err(self, <<<<"YAML parsing error">>>>), FALSE, None)
      [] file.kind = "not a mapping" ->
            Validated(Err(self, <<<<"validation failed">>>>), FALSE, None)
      [] file.kind = "refused" ->
            Validated(Err(self, file.errors), FALSE, None)
      [] file.kind = "config" -> ValidateParsed(self, file.config, file.disk)

\* ConfigValidator.validate_config_file
validate_config_file(self, file) ==
    LET fresh == [self EXCEPT !.warnings = <<>>, !.errors = <<>>]
    IN  CASE file.kind = "missing" ->
                Validated(Err(fresh, <<<<"file not found">>>>), FALSE, None)
          [] file.kind = "not yaml" ->
                Validated(Err(fresh, <<<<"YAML parsing error">>>>), FALSE, None)
          [] file.kind = "not a mapping" ->
                Validated(Err(fresh, <<<<"validation failed">>>>), FALSE, None)
          [] file.kind = "refused" ->
                Validated(Err(fresh, file.errors), FALSE, None)
          [] file.kind = "config" -> ValidateParsed(fresh, file.config, file.disk)

----------------------------------------------------------------------------
(* Validator calls: one validator validates two files, one after the other *)

\* screenshots: complete; with a theme, an output name and one language;
\* with an input per language, a theme that is no preset and the same output
\* name; without main text; with a style that sets nothing
ValidatorScreenshots ==
    {ScreenshotEntry(HomePath, LocalizedTextContent(MainTexts, None), None, NoneStr),
     ScreenshotEntry(HomePath, LocalizedTextContent("en" :> "Main", None),
                     Str(<<Lit("shot")>>), "standard_inverted"),
     ScreenshotEntry(DetailPath, LocalizedTextContent("ja" :> "Main ja", None),
                     Str(<<Lit("shot")>>), "custom"),
     ScreenshotEntry(HomePath, LocalizedTextContent(<<>>, None), None, ""),
     [ScreenshotEntry(HomePath, LocalizedTextContent(MainTexts, None),
                      Str(<<Lit("shot")>>), NoneStr)
         EXCEPT !.main_text_style = LocalizedTextStyle(<<>>)]}

\* the lists of at most n of these screenshots
RECURSIVE ValidatorScreenshotLists(_)
ValidatorScreenshotLists(n) ==
    IF n = 0 THEN {<<>>}
    ELSE ValidatorScreenshotLists(n - 1)
         \cup {Append(l, x) : l \in {m \in ValidatorScreenshotLists(n - 1) : Len(m) = n - 1},
                              x \in ValidatorScreenshots}

\* a file that parses to a configuration, and the input images on disk
ConfigFile(config, disk) == [kind |-> "config", config |-> config, disk |-> disk]

\* the configuration files: default themes that are and are not presets,
\* theme styles for a preset and for no preset, languages configured or not
ConfigFiles ==
    {ConfigFile(GeneratorConfig(ConfigData("<unset>", default_theme, theme_styles),
                                languages, <<<<8, 8>>>>, screenshots),
                disk) :
        default_theme \in {"<unset>", "nonexistent"},
        theme_styles \in {<<>>,
                          ("standard" :> Theme(None, NoneStr, None, None, None))
                          @@ ("custom" :> Theme(None, NoneStr, None,
                                                 LocalizedTextStyle(<<>>), None))},
        languages \in {None, IntList(<<"en", "ja">>), IntList(<<"en", "fr">>)},
        screenshots \in ValidatorScreenshotLists(MaxScreenshots),
        disk \in {{}, {HomePath}}}

\* files that do not parse
BrokenFiles ==
    {[kind |-> "missing"], [kind |-> "not yaml"], [kind |-> "not a mapping"],
     [kind |-> "refused", errors |-> <<<<"screenshots", "Field required">>>>]}

\* the files that do not parse and, of the others, those without messages,
\* with warnings only, and with errors and warnings
ProbeFiles ==
    BrokenFiles
    \cup {f \in ConfigFiles :
             /\ f.config.default_theme = "standard" /\ f.config.theme_styles = <<>>
             /\ f.config.languages = IntList(<<"en", "ja">>)
             /\ Len(f.config.screenshots) <= 1
             /\ \A i \in 1..Len(f.config.screenshots) :
                   /\ f.config.screenshots[i].output_name = None
                   /\ f.config.screenshots[i].main_text_style = None}

InitValidator ==
    \E first \in ConfigFiles \cup BrokenFiles, second \in ConfigFiles \cup BrokenFiles :
        /\ first \in ProbeFiles \/ second \in ProbeFiles
        /\ Call("validate_config_file", [files |-> <<first, second>>])

\* ConfigValidator(verbose)
NewValidator ==
    /\ pc = "call" /\ op = "validate_config_file"
    /\ pc' = "ready" /\ heap' = ConfigValidator /\ frame' = [n |-> 0]
    /\ UNCHANGED <<op, args, result, log>>

\* validator.validate_config_file(path) of the next file
ValidateConfigFile ==
    /\ pc = "ready"
    /\ LET validated == validate_config_file(heap, args.files[frame.n + 1])
       IN  /\ heap' = validated.self
           /\ result' = Return(validated.result)
           /\ log' = Append(log, validated.result)
    /\ frame' = [n |-> frame.n + 1]
    /\ pc' = IF frame.n + 1 = Len(args.files) THEN "done" ELSE "ready"
    /\ UNCHANGED <<op, args>>

NextValidator ==
    \/ NewValidator
    \/ ValidateConfigFile

\* the configuration validator
SpecValidator == InitValidator /\ [][NextValidator]_vars

----------------------------------------------------------------------------
(* What validation accepts *)

\* a validation has returned
HasValidated == op = "validate_config_file" /\ pc \in {"ready", "done"} /\ frame.n >= 1

\* the file validated last
ValidatedFile == args.files[frame.n]

\* the blocking errors of a file: it does not parse, a screenshot names a
\* theme that is no preset, or a screenshot has no main text
Blocked(file) ==
    \/ file.kind # "config"
    \/ \E i \in 1..Len(file.config.screenshots) :
          LET screenshot == file.config.screenshots[i]
          IN  \/ screenshot.theme \notin {NoneStr, ""} \cup DOMAIN THEMES
              \/ screenshot.text.main_text = <<>>

\* the kinds of the warnings the validator holds
WarningKinds == {heap.warnings[j][1] : j \in 1..Len(heap.warnings)}

\* C23: validate_config_file returns (True, config) exactly when it recorded
\* no blocking error and (False, None) otherwise; warnings (a configured
\* language no screenshot uses, a duplicate output_name, a theme_styles key
\* that is no preset, an input image not found) never make a configuration
\* invalid; errors and warnings of an earlier validation on the same
\* validator never show in a later one.
C23_ValidExactlyWithoutErrors ==
    HasValidated =>
        /\ result = IF Blocked(ValidatedFile) THEN Return(<<FALSE, None>>)
                    ELSE Return(<<TRUE, ValidatedFile.config>>)
        /\ (heap.errors = <<>>) <=> ~Blocked(ValidatedFile)
        /\ heap = validate_config_file(ConfigValidator, ValidatedFile).self

\* after a file that has errors and warnings, a configuration with the four
\* kinds of warning is accepted
C23_Witness ==
    /\ HasValidated /\ frame.n = 2
    /\ log[1] = <<FALSE, None>>
    /\ args.files[1].kind = "config" /\ args.files[1].disk = {}
    /\ args.files[2].kind = "config"
    /\ result = Return(<<TRUE, args.files[2].config>>)
    /\ {"languages not used", "duplicate output_name", "no preset theme",
        "input image not found"} \subseteq WarningKinds

\* the configuration the last validation accepted
Accepted ==
    /\ HasValidated /\ ValidatedFile.kind = "config"
    /\ result = Return(<<TRUE, ValidatedFile.config>>)

\* C24: every configuration the validator accepts gives every screenshot an
\* effective theme (its own theme, else default_theme) that is a preset, so
\* generation never fails on an unknown theme.
C24_AcceptedThemesArePresets ==
    Accepted =>
        \A i \in 1..Len(ValidatedFile.config.screenshots) :
            /\ is_valid_theme(ThemeName(ValidatedFile.config,
                                        ValidatedFile.config.screenshots[i]))
            /\ get_theme_style(ValidatedFile.config,
                               ValidatedFile.config.screenshots[i]).kind = "return"

\* C25: in every configuration the validator accepts, every screenshot has a
\* main text for every language generation iterates over.
C25_AcceptedTextsComplete ==
    Accepted =>
        LET languages == get_languages_to_generate(ValidatedFile.config, NoneStr)
        IN  languages.kind = "return" =>
                \A l \in 1..Len(languages.val),
                   i \in 1..Len(ValidatedFile.config.screenshots) :
                    get_text_for_language(ValidatedFile.config.screenshots[i],
                                          languages.val[l]).kind = "return"

----------------------------------------------------------------------------
(* font_finder.py: FontFinder._load_ttc_font, _build_ttc_cache and
   _find_best_match. A dict is the list of its items in insertion order; the
   class attribute _ttc_cache is shared by every thread: heap.present tells
   whether it has the font path, heap.current which dict it maps the path
   to, heap.dicts holds the dicts made so far. *)

\* (weight, style) of a face, the key of the cache
FaceKey(weight, style) == <<weight, style>>

\* key in cache
HasKey(cache, key) == \E n \in 1..Len(cache) : cache[n][1] = key

\* cache[key] = index: a new key goes last, a key it has keeps its place
SetItem(cache, key, index) ==
    IF HasKey(cache, key)
    THEN [n \in 1..Len(cache) |-> IF cache[n][1] = key THEN <<key, index>> ELSE cache[n]]
    ELSE Append(cache, <<key, index>>)

\* the items of the cache that come into question: those of the style, or
\* all when no item has the style
Candidates(cache, target_style) ==
    LET styled == SelectSeq(cache, LAMBDA item : item[1][2] = target_style)
    IN  IF styled # <<>> THEN styled ELSE cache

\* |weight - target_weight|
WeightDiff(item, target_weight) ==
    IF item[1][1] >= target_weight THEN item[1][1] - target_weight
    ELSE target_weight - item[1][1]

\* FontFinder._find_best_match: the exact key, else the first item of the
\* smallest weight difference
find_best_match(cache, target_weight, target_style) ==
    LET key == FaceKey(target_weight, target_style)
        items == Candidates(cache, target_style)
        best == CHOOSE n \in 1..Len(items) :
                    /\ \A m \in 1..Len(items) :
                          WeightDiff(items[n], target_weight)
                              <= WeightDiff(items[m], target_weight)
                    /\ \A m \in 1..(n - 1) :
                          WeightDiff(items[m], target_weight)
                              > WeightDiff(items[n], target_weight)
    IN  IF HasKey(cache, key)
        THEN (CHOOSE item \in {cache[n] : n \in 1..Len(cache)} : item[1] = key)[2]
        ELSE IF items = <<>> THEN 0
        ELSE items[best][2]

\* the cache _build_ttc_cache builds when nothing interferes
RECURSIVE BuiltCache(_, _)
BuiltCache(faces, n) ==
    IF n = 0 THEN <<>>
    ELSE SetItem(BuiltCache(faces, n - 1), faces[n], n - 1)

\* _load_ttc_font run alone: the index of the face it loads
load_ttc_font(faces, target_weight, target_style) ==
    LET cache == BuiltCache(faces, Len(faces))
    IN  IF cache = <<>> THEN 0 ELSE find_best_match(cache, target_weight, target_style)

\* the shared class attribute before any load
NoCache == [present |-> FALSE, current |-> 0, dicts |-> <<>>]

\* the locals of one thread in _load_ttc_font
ThreadLocals == [at |-> "check", index |-> 1, cache |-> 0, loaded |-> None]

FaceInputs == {FaceKey(400, "normal"), FaceKey(700, "normal"), FaceKey(400, "italic")}

\* the TTC files of at most n faces
RECURSIVE Collections(_)
Collections(n) ==
    IF n = 0 THEN {<<>>}
    ELSE Collections(n - 1)
         \cup {Append(c, x) : c \in {d \in Collections(n - 1) : Len(d) = n - 1},
                              x \in FaceInputs}

Targets == {[weight |-> w, style |-> s] : w \in {400, 700}, s \in {"normal", "italic"}}

Threads == {1, 2}

InitFontFinder ==
    \E faces \in Collections(MaxFaces) \ {<<>>}, first \in Targets, second \in Targets :
        Call("_load_ttc_font", [faces |-> faces, targets |-> <<first, second>>])

\* two threads enter _load_ttc_font for the same font path
StartThreads ==
    /\ pc = "call" /\ op = "_load_ttc_font"
    /\ pc' = "threads" /\ heap' = NoCache
    /\ frame' = [t \in Threads |-> ThreadLocals]
    /\ UNCHANGED <<op, args, result, log>>

\* if font_path not in cls._ttc_cache
CheckCache(t) ==
    /\ pc = "threads" /\ frame[t].at = "check"
    /\ frame' = [frame EXCEPT ![t].at = IF heap.present THEN "get" ELSE "build"]
    /\ UNCHANGED <<op, args, pc, result, heap, log>>

\* _build_ttc_cache: cls._ttc_cache[font_path] = {}
NewCache(t) ==
    /\ pc = "threads" /\ frame[t].at = "build"
    /\ heap' = [present |-> TRUE, current |-> Len(heap.dicts) + 1,
                dicts |-> Append(heap.dicts, <<>>)]
    /\ frame' = [frame EXCEPT ![t].at = "faces", ![t].index = 1]
    /\ UNCHANGED <<op, args, pc, result, log>>

\* for index, ttfont in enumerate(ttc): cls._ttc_cache[font_path][key] = index
StoreFace(t) ==
    /\ pc = "threads" /\ frame[t].at = "faces"
    /\ IF frame[t].index > Len(args.faces)
       THEN frame' = [frame EXCEPT ![t].at = "get"] /\ UNCHANGED heap
       ELSE /\ heap' = [heap EXCEPT !.dicts[heap.current] =
                                        SetItem(@, args.faces[frame[t].index],
                                                frame[t].index - 1)]
            /\ frame' = [frame EXCEPT ![t].index = @ + 1]
    /\ UNCHANGED <<op, args, pc, result, log>>

\* cache = cls._ttc_cache.get(font_path, {}); if not cache: the first face
GetCache(t) ==
    /\ pc = "threads" /\ frame[t].at = "get"
    /\ IF heap.dicts[heap.current] = <<>>
       THEN frame' = [frame EXCEPT ![t].at = "done", ![t].loaded = IntVal(0)]
       ELSE frame' = [frame EXCEPT ![t].at = "match", ![t].cache = heap.current]
    /\ UNCHANGED <<op, args, pc, result, heap, log>>

\* _find_best_match on the dict the thread holds, as it is now; a dict that
\* grows while the loop walks it ends the loop with RuntimeError
FindBestMatch(t) ==
    /\ pc = "threads" /\ frame[t].at = "match"
    /\ LET cache == heap.dicts[frame[t].cache]
           target == args.targets[t]
           growing ==
               /\ ~HasKey(cache, FaceKey(target.weight, target.style))
               /\ \E u \in Threads \ {t} :
                     /\ frame[u].at = "faces" /\ heap.current = frame[t].cache
                     /\ \E n \in frame[u].index..Len(args.faces) :
                           ~HasKey(cache, args.faces[n])
       IN  \/ frame' = [frame EXCEPT
                           ![t].at = "done",
                           ![t].loaded = IntVal(find_best_match(cache, target.weight,
                                                                target.style))]
           \/ /\ growing
              /\ frame' = [frame EXCEPT ![t].at = "done",
                                        ![t].loaded = Raise("RuntimeError")]
    /\ UNCHANGED <<op, args, pc, result, heap, log>>

\* both loads have ended
JoinThreads ==
    /\ pc = "threads" /\ \A t \in Threads : frame[t].at = "done"
    /\ pc' = "done" /\ result' = Return([t \in Threads |-> frame[t].loaded])
    /\ UNCHANGED <<op, args, heap, frame, log>>

NextFontFinder ==
    \/ StartThreads
    \/ \E t \in Threads : CheckCache(t)
    \/ \E t \in Threads : NewCache(t)
    \/ \E t \in Threads : StoreFace(t)
    \/ \E t \in Threads : GetCache(t)
    \/ \E t \in Threads : FindBestMatch(t)
    \/ JoinThreads

\* two concurrent loads of one TTC file
SpecFontFinder == InitFontFinder /\ [][NextFontFinder]_vars

\* C26: two concurrent FontFinder loads of the same TTC file never pick a
\* font index other than the one a load run alone picks, whatever state of
\* the shared TTC cache (absent, empty, partly built) either of them sees.
C26_ConcurrentLoadsAgree ==
    (pc = "done" /\ op = "_load_ttc_font") =>
        \A t \in Threads :
            result.val[t] = IntVal(load_ttc_font(args.faces, args.targets[t].weight,
                                                 args.targets[t].style))

----------------------------------------------------------------------------
(* style_merger.py and config_manager.py on objects. heap is the list of the
   objects made so far; an attribute holds a value or a reference to an
   object, so that two objects can share a third and an assignment shows in
   every object that refers to the one assigned to. TextStyle and ImageStyle
   objects hold values only; a LocalizedTextStyle refers to its per-language
   dicts, a Theme to its styles, the configuration to its themes. *)

Ref(id) == [kind |-> "ref", id |-> id]

\* a call's effect on the objects and what it returns
Effect(h, val) == [heap |-> h, val |-> val]

\* a new object
Alloc(h, object) == Effect(Append(h, object), Ref(Len(h) + 1))

\* BaseModel.model_copy(): a new object with the attributes of the old one,
\* the objects they refer to shared
model_copy(h, r) == Alloc(h, h[r.id])

\* setattr(style, name, value) for the fields of a dict, on a TextStyle
SetTextAttrs(h, r, fields) ==
    [h EXCEPT ![r.id].v = [f \in Fields |-> IF f \in DOMAIN fields THEN fields[f] ELSE @[f]],
              ![r.id].fields_set = @ \cup DOMAIN fields]

\* merge_text_styles that assigns to defaults itself
merge_text_styles_in_place(h, defaults, override) ==
    Effect(SetTextAttrs(h, defaults,
                        [f \in h[override.id].fields_set |-> h[override.id].v[f]]),
           defaults)

\* StyleMerger.merge_text_styles on objects
merge_text_styles_of(h, defaults, override) ==
    LET merged == model_copy(h, defaults)
    IN  Effect(SetTextAttrs(merged.heap, merged.val,
                            [f \in h[override.id].fields_set |-> h[override.id].v[f]]),
               merged.val)

\* an attribute that holds a dict
IsDict(h, value) == value.kind = "ref" /\ h[value.id].kind = "dict"

RECURSIVE MergeLocalizedFields(_, _, _, _, _)
\* the loop of merge_localized_text_styles from the i-th field on: a new dict
\* of both dicts, or override's value, assigned to merged
MergeLocalizedFields(h, merged, defaults_style, override_style, i) ==
    IF i > Len(FieldNames) THEN h
    ELSE
    LET field_name == FieldNames[i]
        defaults_value == h[defaults_style.id].f[field_name]
        override_value == h[override_style.id].f[field_name]
    IN  IF override_value.kind = "None"
        THEN MergeLocalizedFields(h, merged, defaults_style, override_style, i + 1)
        ELSE IF IsDict(h, defaults_value) /\ IsDict(h, override_value)
        THEN LET merged_dict ==
                     Alloc(h, Dict(DictUpdate(h[defaults_value.id].map,
                                              h[override_value.id].map)))
             IN  MergeLocalizedFields(
                     [merged_dict.heap EXCEPT ![merged.id].f[field_name] = merged_dict.val],
                     merged, defaults_style, override_style, i + 1)
        ELSE MergeLocalizedFields([h EXCEPT ![merged.id].f[field_name] = override_value],
                                  merged, defaults_style, override_style, i + 1)

\* StyleMerger.merge_localized_text_styles on objects; either may be None
merge_localized_text_styles_of(h, defaults_style, override_style) ==
    IF override_style.kind = "None" THEN Effect(h, defaults_style)
    ELSE IF defaults_style.kind = "None" THEN Effect(h, override_style)
    ELSE LET merged == model_copy(h, defaults_style)
         IN  Effect(MergeLocalizedFields(merged.heap, merged.val, defaults_style,
                                         override_style, 1),
                    merged.val)

\* ImageStyle(**kwargs) as an object: the fields passed and the defaults
ImageStyleObject(kwargs) ==
    [kind          |-> "ImageStyle",
     corner_radius |-> IF "corner_radius" \in DOMAIN kwargs
                       THEN kwargs["corner_radius"] ELSE IntVal(0),
     padding       |-> IF "padding" \in DOMAIN kwargs THEN kwargs["padding"] ELSE IntVal(0),
     fields_set    |-> DOMAIN kwargs]

\* StyleMerger.merge_image_styles on objects: ImageStyle(**defaults_dict)
merge_image_styles_of(h, defaults_style, override_style) ==
    LET defaults_dict == [corner_radius |-> h[defaults_style.id].corner_radius,
                          padding       |-> h[defaults_style.id].padding]
        override_dict == [f \in h[override_style.id].fields_set |-> h[override_style.id][f]]
    IN  Alloc(h, ImageStyleObject(override_dict @@ defaults_dict))

\* merge_themes, the sub text style: merged.sub_text_style = ...
MergeThemesSub(h, merged, override_theme) ==
    IF h[override_theme.id].sub_text_style.kind = "None" THEN Effect(h, merged)
    ELSE LET style == merge_localized_text_styles_of(h, h[merged.id].sub_text_style,
                                                     h[override_theme.id].sub_text_style)
         IN  Effect([style.heap EXCEPT ![merged.id].sub_text_style = style.val], merged)

\* merge_themes, the main text style, then the sub text style
MergeThemesMain(h, merged, override_theme) ==
    IF h[override_theme.id].main_text_style.kind = "None"
    THEN MergeThemesSub(h, merged, override_theme)
    ELSE LET style == merge_localized_text_styles_of(h, h[merged.id].main_text_style,
                                                     h[override_theme.id].main_text_style)
         IN  MergeThemesSub([style.heap EXCEPT ![merged.id].main_text_style = style.val],
                            merged, override_theme)

\* merge_themes, the image style, then the text styles
MergeThemesImage(h, merged, override_theme) ==
    IF h[override_theme.id].image_style.kind = "None"
    THEN MergeThemesMain(h, merged, override_theme)
    ELSE IF h[merged.id].image_style.kind = "None"
    THEN MergeThemesMain([h EXCEPT ![merged.id].image_style =
                                       h[override_theme.id].image_style],
                         merged, override_theme)
    ELSE LET style == merge_image_styles_of(h, h[merged.id].image_style,
                                            h[override_theme.id].image_style)
         IN  MergeThemesMain([style.heap EXCEPT ![merged.id].image_style = style.val],
                             merged, override_theme)

\* merge_themes, text_area_height and background_color of the copy
MergeThemesScalars(h, merged, override_theme) ==
    [h EXCEPT ![merged.id].text_area_height =
                  IF h[override_theme.id].text_area_height.kind # "None"
                  THEN h[override_theme.id].text_area_height ELSE @,
              ![merged.id].background_color =
                  IF h[override_theme.id].background_color # NoneStr
                  THEN h[override_theme.id].background_color ELSE @]

\* StyleMerger.merge_themes on objects
merge_themes_of(h, defaults_theme, override_theme) ==
    LET merged == model_copy(h, defaults_theme)
    IN  MergeThemesImage(MergeThemesScalars(merged.heap, merged.val, override_theme),
                         merged.val, override_theme)

\* an attribute's value with the object it refers to in place of the
\* reference, one level deep
Shallow(h, value) == IF value.kind = "ref" THEN h[value.id] ELSE value

\* a LocalizedTextStyle with its dicts in place of the references
StyleValue(h, value) ==
    IF value.kind # "ref" THEN value
    ELSE [h[value.id] EXCEPT !.f = [g \in Fields |-> Shallow(h, @[g])]]

\* a Theme with its styles in place of the references
ThemeValue(h, value) ==
    IF value.kind # "ref" THEN value
    ELSE [h[value.id] EXCEPT !.image_style = Shallow(h, @),
                             !.main_text_style = StyleValue(h, @),
                             !.sub_text_style = StyleValue(h, @)]

\* what a reference stands for: the object with every object below it
ValueOf(h, value) ==
    IF value.kind # "ref" THEN value
    ELSE CASE h[value.id].kind = "LocalizedTextStyle" -> StyleValue(h, value)
           [] h[value.id].kind = "Theme" -> ThemeValue(h, value)
           [] h[value.id].kind = "Screenshot" ->
                [h[value.id] EXCEPT !.main_text_style = StyleValue(h, @),
                                    !.sub_text_style = StyleValue(h, @)]
           [] h[value.id].kind = "ScreenshotConfig" ->
                [h[value.id] EXCEPT !.theme_styles =
                                        [name \in DOMAIN @ |-> ThemeValue(h, @[name])]]
           [] OTHER -> h[value.id]

\* StyleMerger.get_style_for_language on objects: a new TextStyle
get_style_for_language_of(h, localized_style, language, default_language) ==
    LET style == get_style_for_language(StyleValue(h, localized_style), language,
                                        default_language)
    IN  IF style.kind = "raise" THEN Effect(h, style) ELSE Alloc(h, style.val)

\* ConfigManager.get_theme_style on objects: the theme of the
\* configuration, or a new empty Theme
get_theme_style_of(h, config, screenshot) ==
    LET theme_name == IF TruthyStr(h[screenshot.id].theme) THEN h[screenshot.id].theme
                      ELSE h[config.id].default_theme
    IN  IF ~is_valid_theme(theme_name) THEN Effect(h, Raise("ValueError"))
        ELSE IF theme_name \in DOMAIN h[config.id].theme_styles
        THEN Effect(h, h[config.id].theme_styles[theme_name])
        ELSE Alloc(h, Theme(None, NoneStr, None, None, None))

\* _get_text_style once the theme's text style is there: the screenshot's
\* style merged over it
MergeScreenshotStyle(h, config, screenshot, language, style_type, theme_text_style) ==
    LET screenshot_localized_style == h[screenshot.id][TextStyleAttr(style_type)]
    IN  IF theme_text_style.kind = "raise" \/ screenshot_localized_style.kind = "None"
        THEN Effect(h, theme_text_style)
        ELSE LET screenshot_style ==
                     get_style_for_language_of(h, screenshot_localized_style, language,
                                               h[config.id].default_language)
             IN  IF screenshot_style.val.kind = "raise" THEN screenshot_style
                 ELSE merge_text_styles_of(screenshot_style.heap, theme_text_style,
                                           screenshot_style.val)

\* _get_text_style once the theme is there: the theme's style for the language
ThemeTextStyle(h, config, screenshot, language, style_type, theme_style) ==
    IF theme_style.kind = "raise" THEN Effect(h, theme_style)
    ELSE LET theme_localized_style == h[theme_style.id][TextStyleAttr(style_type)]
             theme_text_style ==
                 IF theme_localized_style.kind # "None"
                 THEN get_style_for_language_of(h, theme_localized_style, language,
                                                h[config.id].default_language)
                 ELSE Alloc(h, TextStyle(<<>>))
         IN  MergeScreenshotStyle(theme_text_style.heap, config, screenshot, language,
                                  style_type, theme_text_style.val)

\* ConfigManager._get_text_style on objects
get_text_style_of(h, config, screenshot, language, style_type) ==
    LET theme_style == get_theme_style_of(h, config, screenshot)
    IN  ThemeTextStyle(theme_style.heap, config, screenshot, language, style_type,
                       theme_style.val)

\* ConfigManager.get_image_style on objects: the theme's image style, or a
\* new ImageStyle(corner_radius=0, padding=0)
get_image_style_of(h, config, screenshot) ==
    LET theme_style == get_theme_style_of(h, config, screenshot)
    IN  IF theme_style.val.kind = "raise" THEN theme_style
        ELSE IF theme_style.heap[theme_style.val.id].image_style.kind # "None"
        THEN Effect(theme_style.heap, theme_style.heap[theme_style.val.id].image_style)
        ELSE Alloc(theme_style.heap,
                   ImageStyleObject([corner_radius |-> IntVal(0), padding |-> IntVal(0)]))

\* get_text_area_height, get_background_color and get_text_layout read the
\* theme and return a number or a string
get_scalar_of(h, config, screenshot, getter) ==
    Effect(IF getter = "get_text_layout" THEN h
           ELSE get_theme_style_of(h, config, screenshot).heap,
           CASE getter = "get_text_area_height" ->
                    get_text_area_height(ValueOf(h, config), ValueOf(h, screenshot))
             [] getter = "get_background_color" ->
                    get_background_color(ValueOf(h, config), ValueOf(h, screenshot))
             [] getter = "get_text_layout" ->
                    get_text_layout(ValueOf(h, config), ValueOf(h, screenshot)))

----------------------------------------------------------------------------
(* Style resolution calls on one configuration tree, one after another; a
   call may take the results of the calls before it as arguments. *)

\* the objects of a configuration: per-language dicts (1-3), localized
\* styles (4, 5; 5 is the main and the sub style of theme 9 and the style of
\* the screenshot), image styles (6, 7), themes (8, 9), text styles (10, 11),
\* the screenshot (12) and the configuration (13)
ConfigurationObjects(theme, theme_styles) ==
    <<Dict(("en" :> "#1A1A1A") @@ ("ja" :> "#333333")),
      Dict("ja" :> 120),
      Dict("en" :> "#FFFFFF"),
      LocalizedTextStyle(("color" :> Ref(1)) @@ ("font_size" :> Direct(100))),
      LocalizedTextStyle(("color" :> Ref(3)) @@ ("font_size" :> Ref(2))
                         @@ ("font_weight" :> Direct("bold"))),
      ImageStyleObject([corner_radius |-> IntVal(1)]),
      ImageStyleObject([padding |-> IntList(<<0, 4>>)]),
      Theme(IntVal(2), NoneStr, Ref(6), Ref(4), None),
      Theme(None, "#FFFFFF", Ref(7), Ref(5), Ref(5)),
      TextStyle("color" :> "#000000"),
      TextStyle(("font_size" :> 0) @@ ("shadow" :> TRUE)),
      Screenshot(theme, Ref(5), None),
      ScreenshotConfig(ConfigData("<unset>", "<unset>", theme_styles))>>

InitObjects ==
    \E theme \in {NoneStr, "standard_inverted", "custom"},
       theme_styles \in {"standard" :> Ref(8),
                         ("standard" :> Ref(8)) @@ ("standard_inverted" :> Ref(9))} :
        Call("style_resolution",
             [objects |-> ConfigurationObjects(theme, theme_styles),
              screenshot |-> Ref(12), config |-> Ref(13)])

\* the configuration is parsed: its objects exist
ParseConfiguration ==
    /\ pc = "call" /\ op = "style_resolution"
    /\ pc' = "ready" /\ heap' = args.objects /\ frame' = [calls |-> 0]
    /\ UNCHANGED <<op, args, result, log>>

\* the objects of a class
Refs(kind) == {Ref(id) : id \in {n \in 1..Len(heap) : heap[n].kind = kind}}

\* a call is made: its effect on the objects, and the log keeps the call,
\* what it returned and the value of that
Resolve(name, arguments, effect) ==
    /\ pc = "ready"
    /\ heap' = effect.heap
    /\ log' = Append(log, [call |-> <<name, arguments>>, result |-> effect.val,
                           value |-> ValueOf(effect.heap, effect.val)])
    /\ result' = IF effect.val.kind = "raise" THEN effect.val ELSE Return(effect.val)
    /\ frame' = [calls |-> frame.calls + 1]
    /\ pc' = IF frame.calls + 1 >= MaxCalls THEN "done" ELSE "ready"
    /\ UNCHANGED <<op, args>>

ResolveMergeTextStyles ==
    /\ pc = "ready"
    /\ \E defaults \in Refs("TextStyle"), override \in Refs("TextStyle") :
          Resolve("merge_text_styles", <<defaults, override>>,
                  merge_text_styles_of(heap, defaults, override))

ResolveMergeLocalized ==
    /\ pc = "ready"
    /\ \E defaults_style \in Refs("LocalizedTextStyle") \cup {None},
          override_style \in Refs("LocalizedTextStyle") \cup {None} :
          Resolve("merge_localized_text_styles", <<defaults_style, override_style>>,
                  merge_localized_text_styles_of(heap, defaults_style, override_style))

ResolveMergeThemes ==
    /\ pc = "ready"
    /\ \E defaults_theme \in Refs("Theme"), override_theme \in Refs("Theme") :
          Resolve("merge_themes", <<defaults_theme, override_theme>>,
                  merge_themes_of(heap, defaults_theme, override_theme))

ResolveMergeImageStyles ==
    /\ pc = "ready"
    /\ \E defaults_style \in Refs("ImageStyle"), override_style \in Refs("ImageStyle") :
          Resolve("merge_image_styles", <<defaults_style, override_style>>,
                  merge_image_styles_of(heap, defaults_style, override_style))

ResolveStyleForLanguage ==
    /\ pc = "ready"
    /\ \E localized_style \in Refs("LocalizedTextStyle"), language \in {"ja", "de"},
          default_language \in {"en", NoneStr} :
          Resolve("get_style_for_language", <<localized_style, language, default_language>>,
                  get_style_for_language_of(heap, localized_style, language,
                                            default_language))

ResolveThemeStyle ==
    /\ pc = "ready"
    /\ Resolve("get_theme_style", <<args.screenshot>>,
               get_theme_style_of(heap, args.config, args.screenshot))

ResolveTextStyle ==
    /\ pc = "ready"
    /\ \E language \in {"ja", "de"}, style_type \in {"main", "sub"} :
          Resolve("_get_text_style", <<args.screenshot, language, style_type>>,
                  get_text_style_of(heap, args.config, args.screenshot, language,
                                    style_type))

ResolveImageStyle ==
    /\ pc = "ready"
    /\ Resolve("get_image_style", <<args.screenshot>>,
               get_image_style_of(heap, args.config, args.screenshot))

ResolveScalar ==
    /\ pc = "ready"
    /\ \E getter \in {"get_text_area_height", "get_background_color", "get_text_layout"} :
          Resolve(getter, <<args.screenshot>>,
                  get_scalar_of(heap, args.config, args.screenshot, getter))

NextObjects ==
    \/ ParseConfiguration
    \/ ResolveMergeTextStyles
    \/ ResolveMergeLocalized
    \/ ResolveMergeThemes
    \/ ResolveMergeImageStyles
    \/ ResolveStyleForLanguage
    \/ ResolveThemeStyle
    \/ ResolveTextStyle
    \/ ResolveImageStyle
    \/ ResolveScalar

\* style resolution on objects
SpecObjects == InitObjects /\ [][NextObjects]_vars

\* C27: across any sequence of calls of merge_text_styles,
\* merge_localized_text_styles, merge_themes, merge_image_styles,
\* get_style_for_language and the ConfigManager getters, the argument
\* objects and the configuration tree, the per-language dicts in them
\* included, keep their values, and a call repeated with the same arguments
\* returns an equal result.
C27_SourcesKeepTheirValues ==
    (op = "style_resolution" /\ pc \in {"ready", "done"}) =>
        /\ SubSeq(heap, 1, Len(args.objects)) = args.objects
        /\ \A j \in 1..Len(log) : ValueOf(heap, log[j].result) = log[j].value
        /\ \A j, k \in 1..Len(log) :
              log[j].call = log[k].call => log[j].value = log[k].value

\* the same merge of two localized styles twice: two new objects of equal
\* value that share a dict with the override and have a dict of their own
C27_Witness ==
    /\ op = "style_resolution" /\ pc = "done" /\ Len(log) = 2
    /\ log[1].call = <<"merge_localized_text_styles", <<Ref(4), Ref(5)>>>>
    /\ log[2].call = log[1].call
    /\ log[1].result # log[2].result
    /\ log[1].value = log[2].value
    /\ heap[log[1].result.id].f["font_size"] = Ref(2)
    /\ heap[log[1].result.id].f["color"].id > Len(args.objects)
    /\ heap[heap[log[1].result.id].f["color"].id]
           = Dict(("en" :> "#FFFFFF") @@ ("ja" :> "#333333"))

====
